---- MODULE Spec2Model ----
(***************************************************************************)
(* Model of the tick store of polymarket-crypto-tools                      *)
(* (src/tick_database.py, class TickDatabase): the trades and markets      *)
(* tables, the dedup key, inserts, queries, the summary and the CSV export.*)
(*                                                                         *)
(* Representation.                                                         *)
(*  - asset_id and timestamp are texts, modelled as sequences of character *)
(*    codes (97 = "a", 95 = "_", 49 = "1", 50 = "2"): they are joined into *)
(*    the dedup key and compared bytewise by SQLite (TEXT, BINARY).        *)
(*  - None (Python None / SQL NULL) is NoText for those two, and the       *)
(*    string "None" for the fields that are only copied and compared for   *)
(*    equality (market_id, side, outcome, source, fee_rate_bps, ...).      *)
(*  - price and size are fixed-point numbers counted in units of 5e-7,     *)
(*    one binary digit finer than the six decimals of the key.             *)
(*  - a trade or market dict is a TLA+ function from keys to values; a     *)
(*    dict with a missing key is a function with a smaller DOMAIN.         *)
(*  - the surrogate column trades.id is left out: no operation reads it.   *)
(*  - the spec's source tags stream / backfill are the code's 'websocket'  *)
(*    / 'rest_api'.                                                        *)
(*                                                                         *)
(* and of its stream client (src/websocket_client.py, class                *)
(* MarketWebSocketClient): connect and disconnect, the handlers the        *)
(* websocket library calls (on_open, on_message, on_error, on_close), the  *)
(* ping thread, and the orderbook map, trade buffer and last-price cache.  *)
(*  - a WebSocketApp is a record of conns: its socket ("connecting",       *)
(*    "open", "closed"), whether close() was called on it, whether its     *)
(*    thread has delivered on_close, the frames sent on it and the place   *)
(*    of its ping thread ("check" before the loop test, "send" after it).  *)
(*  - the websocket library is the environment: it calls on_open once a    *)
(*    connecting socket opened, on_error when it fails, and on_close once  *)
(*    per WebSocketApp when its run ends, also when the connection never   *)
(*    opened or close() ended it; a send on a closed socket raises.        *)
(*  - the handlers run on the library's thread, the ping loop on its own   *)
(*    thread and connect / disconnect on the caller's: a handler is one    *)
(*    step, a turn of the ping loop two (the flags are read without the    *)
(*    lock, so they may change between the test and the send).             *)
(*  - a frame is a text or the text of a JSON object or array; the         *)
(*    registered callbacks return normally and are recorded in calls.      *)
(***************************************************************************)
EXTENDS Integers, Sequences, FiniteSets, TLC

VARIABLES trades,   \* rows of table trades (a set: the table has no order)
          markets,  \* rows of table markets
          now,      \* the wall clock, datetime.now(timezone.utc)
          files,    \* the file at the export path: NoFile or its lines
          ret,      \* what the last call returned or raised
          \* MarketWebSocketClient
          asset_ids,       \* the asset ids the client was given
          running,         \* self.running
          connected,       \* self.connected
          ws,              \* self.ws: 0 (None) or the index of its
                           \* WebSocketApp in conns
          conns,           \* every WebSocketApp created so far, with its
                           \* socket, the frames sent on it and its ping
                           \* thread
          orderbooks,      \* self.orderbooks
          trades_history,  \* self.trades_history, newest first
          last_prices,     \* self.last_prices
          received,        \* every last_trade_price record built so far,
                           \* oldest first
          calls,           \* the callbacks the last handler invoked, in
                           \* order
          disconnected_calls,  \* how often on_disconnected was invoked
          transitions,     \* how often connected went from True to False
          unexpected,      \* NoClose, or what had been opened and sent
                           \* when a connection closed that nobody had
                           \* closed, until the caller calls connect again
          \* TickRecorder, the upstream API and the process that runs it
          upstream,        \* what the API holds: market id -> record
          market_ids,      \* self.market_ids
          rec_running,     \* self.running of the recorder
          db,              \* self.db: "None", "open" or "closed"
          ws_client,       \* self.ws_client: "None" or "client"
          token_map,       \* self.token_map: token -> <<market_id, outcome>>
          markets_metadata,    \* self.markets_metadata
          trades_recorded, \* self.trades_recorded
          rec_start_time,  \* self.start_time, NoTime for None
          effects,         \* what the recorder did to the outside since its
                           \* last start, in order
          rec_calls,       \* the store calls the last callback made
          process,         \* "running", or the exit status of the process
          \* where the threads stand inside a handler, for the runs that
          \* interleave them; each is empty or zero between handlers
          lock,            \* self._lock: "free", or the thread that holds it
          handling,        \* the event the receive thread is storing
          opening,         \* the connection whose _on_open has subscribed
                           \* and not yet marked the client connected
          stopping,        \* the stop_recording in progress and its stage
          inserting        \* the trade_data a callback is about to insert

dbvars == <<trades, markets, now, files>>

wsvars == <<asset_ids, running, connected, ws, conns, orderbooks,
            trades_history, last_prices, received, calls, disconnected_calls,
            transitions, unexpected>>

recvars == <<upstream, market_ids, rec_running, db, ws_client, token_map,
             markets_metadata, trades_recorded, rec_start_time, effects,
             rec_calls, process>>

stepvars == <<lock, handling, opening, stopping, inserting>>

vars == <<trades, markets, now, files, ret, asset_ids, running, connected,
          ws, conns, orderbooks, trades_history, last_prices, received,
          calls, disconnected_calls, transitions, unexpected, upstream,
          market_ids, rec_running, db, ws_client, token_map,
          markets_metadata, trades_recorded, rec_start_time, effects,
          rec_calls, process, lock, handling, opening, stopping, inserting>>

\* ------------------------------------------------------------------ bounds
MaxRows  == 2   \* rows the trades table may hold
MaxQty   == 2   \* price + size of an input trade, in units of 5e-7
MaxClock == 1   \* ticks of the wall clock
MaxBatch == 2   \* items of one insert_trades_batch call
MaxConns == 2   \* connections one client opens, one after the other
MaxPings == 2   \* pings sent on one connection
MaxHistory == 2 \* max_trades_history the client is constructed with
MaxEvents == 3  \* last_trade_price events the client receives

\* ------------------------------------------------------------------ values
None   == "None"
NoText == <<-1>>
\* no file at the path: told apart from every file the export writes, whose
\* first line is the ten-column header
NoFile == << <<"no file">> >>

Min(a, b) == IF a <= b THEN a ELSE b

\* bytewise comparison of two texts (SQLite BINARY collation, memcmp)
TextLE(s, t) ==
    \E k \in 0..Min(Len(s), Len(t)) :
        /\ \A i \in 1..k : s[i] = t[i]
        /\ \/ k = Len(s)
           \/ k < Len(t) /\ s[k+1] < t[k+1]

TextLT(s, t) == TextLE(s, t) /\ s # t

\* Python truthiness of an Optional[str]
TruthyText(t) == t # NoText /\ t # <<>>
TruthyStr(s) == s # None /\ s # ""

\* dict.get(key) with default None
Get(d, k) == IF k \in DOMAIN d THEN d[k] ELSE None

\* ------------------------------------------------------------ the dedup key
\* f"{x:.6f}" of a number x counted in units of 5e-7: the number of
\* millionths it is rounded to.  An odd x lies halfway in decimal; the
\* double nearest to it does not, and decides the digit: float("0.0000005")
\* prints 0.000000, 0.0000015 prints 0.000002, 0.0000025 prints 0.000003,
\* 0.0000035 prints 0.000003, 0.0000045 prints 0.000005.
HalfwayUp == {3, 5, 9}

Fmt6(x) ==
    IF x % 2 = 0 THEN x \div 2
    ELSE IF x \in HalfwayUp THEN (x + 1) \div 2 ELSE (x - 1) \div 2

\* hashlib.md5(key.encode()).hexdigest(): taken as collision-free
md5(key) == [md5 |-> key]

\* the formatted numbers hold no "_": each is one token of the key
_generate_trade_id(asset_id, timestamp, price, size) ==
    md5(asset_id \o <<95>> \o timestamp \o <<95, Fmt6(price), 95, Fmt6(size)>>)

\* ------------------------------------------------------------ table trades
TradeKeys == {"market_id", "asset_id", "side", "price", "size",
              "timestamp", "source"}

\* the NOT NULL constraints without the two CHECK constraints
RowConstraintsNotNullOnly(row) ==
    /\ row.side # None
    /\ row.source # None
    /\ row.market_id # None
    /\ row.asset_id # NoText
    /\ row.timestamp # NoText

\* CHECK (side IN ('BUY','SELL')), CHECK (source IN (...)), NOT NULL
RowConstraints(row) ==
    /\ row.side \in {"BUY", "SELL"}
    /\ row.source \in {"websocket", "rest_api"}
    /\ row.market_id # None
    /\ row.asset_id # NoText
    /\ row.timestamp # NoText

\* trade_id TEXT UNIQUE NOT NULL
UniqueConflictNever(T, row) == FALSE

UniqueConflict(T, row) == \E r \in T : r.trade_id = row.trade_id

\* INSERT OR IGNORE: the row is skipped on any constraint violation (UNIQUE,
\* CHECK, NOT NULL), no error is raised and cursor.rowcount is 0
InsertOrReplace(T, row) ==
    IF RowConstraints(row)
    THEN [rows |-> {r \in T : r.trade_id # row.trade_id} \cup {row},
          rowcount |-> 1]
    ELSE [rows |-> T, rowcount |-> 0]

InsertOrIgnore(T, row) ==
    IF RowConstraints(row) /\ ~UniqueConflict(T, row)
    THEN [rows |-> T \cup {row}, rowcount |-> 1]
    ELSE [rows |-> T, rowcount |-> 0]

\* the row insert_trade binds to the statement
TradeRow(td, recorded_at) ==
    [trade_id     |-> _generate_trade_id(td.asset_id, td.timestamp,
                                         td.price, td.size),
     market_id    |-> td.market_id,
     asset_id     |-> td.asset_id,
     side         |-> td.side,
     outcome      |-> Get(td, "outcome"),
     price        |-> td.price,
     size         |-> td.size,
     fee_rate_bps |-> Get(td, "fee_rate_bps"),
     timestamp    |-> td.timestamp,
     source       |-> td.source,
     recorded_at  |-> recorded_at]

\* trade_data['...'] of a missing key raises KeyError
TradeRaises(td) == ~(TradeKeys \subseteq DOMAIN td)

\* the last call: its name, its arguments, and what it returned or that it raised
Returned(op, args, value) ==
    [op |-> op, args |-> args, status |-> "ok", value |-> value]
Raised(op, args) ==
    [op |-> op, args |-> args, status |-> "raise", value |-> None]

\* one insert_trade call on table T at time t: the table and the result
InsertTradeResult(T, td, t) ==
    IF TradeRaises(td)
    THEN [rows |-> T, raised |-> TRUE, inserted |-> FALSE]
    ELSE LET done == InsertOrIgnore(T, TradeRow(td, t))
         IN  [rows |-> done.rows, raised |-> FALSE,
              inserted |-> done.rowcount > 0]

insert_trade(trade_data) ==
    LET r == InsertTradeResult(trades, trade_data, now)
    IN  /\ Cardinality(r.rows) <= MaxRows
        /\ trades' = r.rows
        /\ ret' = IF r.raised THEN Raised("insert_trade", <<trade_data>>)
                  ELSE Returned("insert_trade", <<trade_data>>, r.inserted)
        /\ UNCHANGED <<markets, now, files>>
        /\ UNCHANGED wsvars
        /\ UNCHANGED recvars
        /\ UNCHANGED stepvars

\* the loop of insert_trades_batch from item i on; each insert_trade commits
\* on its own, an exception leaves the loop
RECURSIVE BatchLoopCountAll(_, _, _, _, _)
BatchLoopCountAll(T, batch, i, inserted_count, t) ==
    IF i > Len(batch)
    THEN [rows |-> T, raised |-> FALSE, count |-> inserted_count]
    ELSE LET r == InsertTradeResult(T, batch[i], t)
         IN  IF r.raised
             THEN [rows |-> T, raised |-> TRUE, count |-> inserted_count]
             ELSE BatchLoopCountAll(r.rows, batch, i + 1,
                                    inserted_count + 1, t)

RECURSIVE BatchLoop(_, _, _, _, _)
BatchLoop(T, batch, i, inserted_count, t) ==
    IF i > Len(batch)
    THEN [rows |-> T, raised |-> FALSE, count |-> inserted_count]
    ELSE LET r == InsertTradeResult(T, batch[i], t)
         IN  IF r.raised
             THEN [rows |-> T, raised |-> TRUE, count |-> inserted_count]
             ELSE BatchLoop(r.rows, batch, i + 1,
                            IF r.inserted THEN inserted_count + 1
                            ELSE inserted_count, t)

insert_trades_batch(batch) ==
    LET r == BatchLoop(trades, batch, 1, 0, now)
    IN  /\ Cardinality(r.rows) <= MaxRows
        /\ trades' = r.rows
        /\ ret' = IF r.raised THEN Raised("insert_trades_batch", <<batch>>)
                  ELSE Returned("insert_trades_batch", <<batch>>, r.count)
        /\ UNCHANGED <<markets, now, files>>
        /\ UNCHANGED wsvars
        /\ UNCHANGED recvars
        /\ UNCHANGED stepvars

\* ----------------------------------------------------------- table markets
MarketKeys == {"market_id", "question", "token_up", "token_down"}

\* market_data['...'] of a missing key raises KeyError; a NULL in a NOT NULL
\* column without default aborts INSERT OR REPLACE with IntegrityError
MarketRaises(md) ==
    \/ ~(MarketKeys \subseteq DOMAIN md)
    \/ md.question = None \/ md.token_up = None \/ md.token_down = None

\* COALESCE((SELECT first_seen FROM markets WHERE market_id = ?), ?)
FirstSeenNow(M, market_id, t) == t

FirstSeen(M, market_id, t) ==
    IF \E r \in M : r.market_id = market_id
    THEN (CHOOSE r \in M : r.market_id = market_id).first_seen
    ELSE t

MarketRow(M, md, t) ==
    [market_id    |-> md.market_id,
     question     |-> md.question,
     outcome_up   |-> Get(md, "outcome_up"),
     outcome_down |-> Get(md, "outcome_down"),
     token_up     |-> md.token_up,
     token_down   |-> md.token_down,
     created_at   |-> Get(md, "created_at"),
     closed       |-> IF "closed" \in DOMAIN md THEN md.closed ELSE FALSE,
     closed_time  |-> Get(md, "closed_time"),
     first_seen   |-> FirstSeen(M, md.market_id, t),
     last_updated |-> t]

\* INSERT OR REPLACE on the primary key market_id
insert_market(market_data) ==
    /\ IF MarketRaises(market_data)
       THEN /\ markets' = markets
            /\ ret' = Raised("insert_market", <<market_data>>)
       ELSE /\ markets' =
                {r \in markets : r.market_id # market_data.market_id}
                \cup {MarketRow(markets, market_data, now)}
            /\ ret' = Returned("insert_market", <<market_data>>, TRUE)
    /\ UNCHANGED <<trades, now, files>>
    /\ UNCHANGED wsvars
    /\ UNCHANGED recvars
    /\ UNCHANGED stepvars

\* SELECT * FROM markets WHERE market_id = ?: the row as a dict, or None
get_market(market_id) ==
    /\ ret' = IF \E r \in markets : r.market_id = market_id
              THEN Returned("get_market", <<market_id>>,
                            CHOOSE r \in markets : r.market_id = market_id)
              ELSE Returned("get_market", <<market_id>>, None)
    /\ UNCHANGED <<trades, markets, now, files>>
    /\ UNCHANGED wsvars
    /\ UNCHANGED recvars
    /\ UNCHANGED stepvars

\* ------------------------------------------------------------------ queries
\* every sequence that lists each row of S once
Listings(S) ==
    {s \in [1..Cardinality(S) -> S] : \A i, j \in DOMAIN s : s[i] = s[j] => i = j}

IsAscending(s) ==
    \A i, j \in DOMAIN s : i < j => TextLE(s[i].timestamp, s[j].timestamp)

\* ORDER BY timestamp ASC: rows of equal timestamp come in any order
AnyOrder(S) == Listings(S)

OrderByTimestampAsc(S) == {s \in Listings(S) : IsAscending(s)}

\* the WHERE clause the two queries build
InRangeClosedEnd(row, start_time, end_time) ==
    /\ TruthyText(start_time) => TextLE(start_time, row.timestamp)
    /\ TruthyText(end_time) => TextLE(row.timestamp, end_time)

InRange(row, start_time, end_time) ==
    /\ TruthyText(start_time) => TextLE(start_time, row.timestamp)
    /\ TruthyText(end_time) => TextLT(row.timestamp, end_time)

SelectByMarketAnyOutcome(T, market_id, start_time, end_time, outcome) ==
    {r \in T : r.market_id = market_id /\ InRange(r, start_time, end_time)}

SelectByMarketAllMarkets(T, market_id, start_time, end_time, outcome) ==
    {r \in T : /\ InRange(r, start_time, end_time)
               /\ TruthyStr(outcome) => r.outcome = outcome}

SelectByMarket(T, market_id, start_time, end_time, outcome) ==
    {r \in T : /\ r.market_id = market_id
               /\ InRange(r, start_time, end_time)
               /\ TruthyStr(outcome) => r.outcome = outcome}

SelectByToken(T, asset_id, start_time, end_time) ==
    {r \in T : r.asset_id = asset_id /\ InRange(r, start_time, end_time)}

get_trades_by_market(market_id, start_time, end_time, outcome) ==
    /\ \E rows \in OrderByTimestampAsc(
                SelectByMarket(trades, market_id, start_time, end_time, outcome)) :
            ret' = Returned("get_trades_by_market",
                            <<market_id, start_time, end_time, outcome>>, rows)
    /\ UNCHANGED <<trades, markets, now, files>>
    /\ UNCHANGED wsvars
    /\ UNCHANGED recvars
    /\ UNCHANGED stepvars

get_trades_by_token(asset_id, start_time, end_time) ==
    /\ \E rows \in OrderByTimestampAsc(
                SelectByToken(trades, asset_id, start_time, end_time)) :
            ret' = Returned("get_trades_by_token",
                            <<asset_id, start_time, end_time>>, rows)
    /\ UNCHANGED <<trades, markets, now, files>>
    /\ UNCHANGED wsvars
    /\ UNCHANGED recvars
    /\ UNCHANGED stepvars

\* ------------------------------------------------------------------ summary
RECURSIVE SumSize(_)
SumSize(S) ==
    IF S = {} THEN 0
    ELSE LET r == CHOOSE x \in S : TRUE IN r.size + SumSize(S \ {r})

MinTimestamp(S) == CHOOSE t \in {r.timestamp : r \in S} :
                       \A r \in S : TextLE(t, r.timestamp)
MaxTimestamp(S) == CHOOSE t \in {r.timestamp : r \in S} :
                       \A r \in S : TextLE(r.timestamp, t)

\* COUNT(*), SUM(size), MIN(timestamp), MAX(timestamp) WHERE market_id = ?
\* and COUNT(*) GROUP BY source; the aggregates of no row are 0 and NULL
MarketSummary(T, market_id) ==
    LET S == {r \in T : r.market_id = market_id}
    IN  [total_trades |-> Cardinality(S),
         total_volume |-> IF S = {} THEN None ELSE SumSize(S),
         oldest_trade |-> IF S = {} THEN NoText ELSE MinTimestamp(S),
         newest_trade |-> IF S = {} THEN NoText ELSE MaxTimestamp(S),
         sources |-> [src \in {r.source : r \in S} |->
                         Cardinality({r \in S : r.source = src})]]

get_market_summary(market_id) ==
    /\ ret' = Returned("get_market_summary", <<market_id>>,
                       MarketSummary(trades, market_id))
    /\ UNCHANGED <<trades, markets, now, files>>
    /\ UNCHANGED wsvars
    /\ UNCHANGED recvars
    /\ UNCHANGED stepvars

\* ------------------------------------------------------------------- export
CsvHeader == <<"timestamp", "market_id", "asset_id", "side", "outcome",
               "price", "size", "value", "fee_rate_bps", "source">>

\* f"{value:.4f}" of price * size, both in units of 5e-7: the number of
\* ten-thousandths (one is 400000000 units of 2.5e-13)
Fmt4(value) == (value + 200000000) \div 400000000

\* csv.DictWriter writes None as the empty field
CsvField(v) == IF v = None THEN "" ELSE v

CsvLine(trade) ==
    <<trade.timestamp, trade.market_id, trade.asset_id, trade.side,
      CsvField(trade.outcome), trade.price, trade.size,
      Fmt4(trade.price * trade.size), CsvField(trade.fee_rate_bps),
      trade.source>>

export_to_csv(market_id) ==
    /\ \E rows \in OrderByTimestampAsc(
                SelectByMarket(trades, market_id, NoText, NoText, None)) :
          IF rows = <<>>
          THEN /\ files' = files
               /\ ret' = Returned("export_to_csv", <<market_id>>, 0)
          ELSE /\ files' = <<CsvHeader>> \o [i \in DOMAIN rows |-> CsvLine(rows[i])]
               /\ ret' = Returned("export_to_csv", <<market_id>>, Len(rows))
    /\ UNCHANGED <<trades, markets, now>>
    /\ UNCHANGED wsvars
    /\ UNCHANGED recvars
    /\ UNCHANGED stepvars

\* -------------------------------------------------------------------- clock
Tick ==
    /\ now < MaxClock
    /\ now' = now + 1
    /\ UNCHANGED <<trades, markets, files, ret>>
    /\ UNCHANGED wsvars
    /\ UNCHANGED recvars
    /\ UNCHANGED stepvars

\* ---------------------------------------------- MarketWebSocketClient: life
MARKET_CHANNEL == "market"

\* frames, sent or received: a text, or the text of a JSON object or array
Text(t) == [kind |-> "text", text |-> t]
Dict(obj) == [kind |-> "dict", obj |-> obj]
JsonList == [kind |-> "list"]

\* json.dumps(subscribe_msg)
SubscribeMsg(ids) == Dict([assets_ids |-> ids, type |-> MARKET_CHANNEL])

\* a WebSocketApp right after connect() created it and started its thread
NewConn == [sock |-> "connecting", opened |-> FALSE, close_called |-> FALSE,
            done |-> FALSE, sent |-> <<>>, ping |-> "none"]

Callback(name, arg) == [name |-> name, arg |-> arg]

NoClose == [none |-> TRUE]

\* the subscription messages sent on a connection, and on all of them
Subs(c) == {i \in DOMAIN conns[c].sent : conns[c].sent[i].kind = "dict"}
Pings(c) == {i \in DOMAIN conns[c].sent : conns[c].sent[i] = Text("PING")}

RECURSIVE SubsUpTo(_)
SubsUpTo(n) == IF n = 0 THEN 0 ELSE Cardinality(Subs(n)) + SubsUpTo(n - 1)

\* connect() without its check of self.running
connect_unguarded ==
    /\ Len(conns) < MaxConns
    /\ running' = TRUE
    /\ conns' = Append(conns, NewConn)
    /\ ws' = Len(conns) + 1
    /\ calls' = <<>>
    /\ unexpected' = NoClose
    /\ ret' = Returned("connect", <<>>, None)
    /\ UNCHANGED <<asset_ids, connected, orderbooks, trades_history,
                   last_prices, received, disconnected_calls, transitions>>
    /\ UNCHANGED dbvars
    /\ UNCHANGED recvars
    /\ UNCHANGED stepvars

connect ==
    /\ IF running
       THEN UNCHANGED <<running, conns, ws>>
       ELSE /\ Len(conns) < MaxConns
            /\ running' = TRUE
            /\ conns' = Append(conns, NewConn)
            /\ ws' = Len(conns) + 1
    /\ calls' = <<>>
    /\ unexpected' = NoClose
    /\ ret' = Returned("connect", <<>>, None)
    /\ UNCHANGED <<asset_ids, connected, orderbooks, trades_history,
                   last_prices, received, disconnected_calls, transitions>>
    /\ UNCHANGED dbvars
    /\ UNCHANGED recvars
    /\ UNCHANGED stepvars

\* the library opened connection c and calls on_open with it (a connection
\* the client closed while it was connecting is not opened any more)
_on_open(c) ==
    /\ conns[c].sock = "connecting"
    /\ ~conns[c].close_called
    /\ conns' = [conns EXCEPT ![c].sock = "open",
                              ![c].opened = TRUE,
                              ![c].sent = Append(@, SubscribeMsg(asset_ids)),
                              ![c].ping = "check"]
    /\ connected' = TRUE
    /\ calls' = <<Callback("on_connected", None)>>
    /\ ret' = Returned("_on_open", <<c>>, None)
    /\ UNCHANGED <<asset_ids, running, ws, orderbooks, trades_history,
                   last_prices, received, disconnected_calls, transitions,
                   unexpected>>
    /\ UNCHANGED dbvars
    /\ UNCHANGED recvars
    /\ UNCHANGED stepvars

\* _on_open statement by statement, for the runs in which the caller's
\* thread calls disconnect in between: the subscription is sent
on_open_subscribe(c) ==
    /\ conns[c].sock = "connecting"
    /\ ~conns[c].close_called
    /\ opening = 0
    /\ conns' = [conns EXCEPT ![c].sock = "open",
                              ![c].opened = TRUE,
                              ![c].sent = Append(@, SubscribeMsg(asset_ids))]
    /\ opening' = c
    /\ calls' = <<>>
    /\ ret' = Returned("on_open_subscribe", <<c>>, None)
    /\ UNCHANGED <<asset_ids, running, connected, ws, orderbooks,
                   trades_history, last_prices, received,
                   disconnected_calls, transitions, unexpected>>
    /\ UNCHANGED <<lock, handling, stopping, inserting>>
    /\ UNCHANGED dbvars
    /\ UNCHANGED recvars

\* self.connected = True, the ping thread is started, and the connected
\* callback is invoked
on_open_connected(c) ==
    /\ opening = c
    /\ connected' = TRUE
    /\ conns' = [conns EXCEPT ![c].ping = "check"]
    /\ opening' = 0
    /\ calls' = <<Callback("on_connected", None)>>
    /\ ret' = Returned("on_open_connected", <<c>>, None)
    /\ UNCHANGED <<asset_ids, running, ws, orderbooks, trades_history,
                   last_prices, received, disconnected_calls, transitions,
                   unexpected>>
    /\ UNCHANGED <<lock, handling, stopping, inserting>>
    /\ UNCHANGED dbvars
    /\ UNCHANGED recvars

\* the library's run_forever hit an error on connection c (it could not
\* connect, or the transport broke) and calls on_error before it tears the
\* connection down
_on_error(c) ==
    /\ opening # c
    /\ ~conns[c].done
    /\ conns[c].sock \in {"connecting", "open"}
    /\ conns' = [conns EXCEPT ![c].sock = "closed"]
    /\ calls' = <<Callback("on_error", "error")>>
    /\ ret' = Returned("_on_error", <<c>>, None)
    /\ UNCHANGED <<asset_ids, running, connected, ws, orderbooks,
                   trades_history, last_prices, received,
                   disconnected_calls, transitions, unexpected>>
    /\ UNCHANGED dbvars
    /\ UNCHANGED recvars
    /\ UNCHANGED stepvars

\* what had been opened and sent when a connection closed by itself
Snapshot == [conns |-> Len(conns), subs |-> SubsUpTo(Len(conns))]

\* _on_close that reconnects by itself
_on_close_reconnecting(c) ==
    /\ ~conns[c].done
    /\ conns[c].sock # "connecting"
    /\ Len(conns) < MaxConns
    /\ conns' = Append([conns EXCEPT ![c].sock = "closed", ![c].done = TRUE],
                       NewConn)
    /\ ws' = Len(conns) + 1
    /\ connected' = FALSE
    /\ transitions' = transitions + (IF connected THEN 1 ELSE 0)
    /\ disconnected_calls' = disconnected_calls + 1
    /\ calls' = <<Callback("on_disconnected", None)>>
    /\ unexpected' = IF conns[c].close_called THEN unexpected ELSE Snapshot
    /\ ret' = Returned("_on_close", <<c>>, None)
    /\ UNCHANGED <<asset_ids, running, orderbooks, trades_history,
                   last_prices, received>>
    /\ UNCHANGED dbvars
    /\ UNCHANGED recvars
    /\ UNCHANGED stepvars

\* the library tears connection c down (the server closed it, an error was
\* reported, or close() was called) and calls on_close, once
_on_close(c) ==
    /\ opening # c
    /\ ~conns[c].done
    /\ conns[c].sock # "connecting"
    /\ conns' = [conns EXCEPT ![c].sock = "closed", ![c].done = TRUE]
    /\ connected' = FALSE
    /\ transitions' = transitions + (IF connected THEN 1 ELSE 0)
    /\ disconnected_calls' = disconnected_calls + 1
    /\ calls' = <<Callback("on_disconnected", None)>>
    /\ unexpected' = IF conns[c].close_called THEN unexpected ELSE Snapshot
    /\ ret' = Returned("_on_close", <<c>>, None)
    /\ UNCHANGED <<asset_ids, running, ws, orderbooks, trades_history,
                   last_prices, received>>
    /\ UNCHANGED dbvars
    /\ UNCHANGED recvars
    /\ UNCHANGED stepvars

\* one step of the ping thread of connection c: the test of the while loop,
\* or the send and the sleep after it; a send on a closed socket raises,
\* which leaves the loop
_ping_loop(c) ==
    /\ \/ /\ conns[c].ping = "check"
          /\ conns' = [conns EXCEPT ![c].ping =
                          IF running /\ connected THEN "send" ELSE "done"]
       \/ /\ conns[c].ping = "send"
          /\ conns[c].sock = "open" => Cardinality(Pings(c)) < MaxPings
          /\ conns' = IF conns[c].sock = "open"
                      THEN [conns EXCEPT ![c].sent = Append(@, Text("PING")),
                                         ![c].ping = "check"]
                      ELSE [conns EXCEPT ![c].ping = "done"]
    /\ calls' = <<>>
    /\ ret' = Returned("_ping_loop", <<c>>, None)
    /\ UNCHANGED <<asset_ids, running, connected, ws, orderbooks,
                   trades_history, last_prices, received,
                   disconnected_calls, transitions, unexpected>>
    /\ UNCHANGED dbvars
    /\ UNCHANGED recvars
    /\ UNCHANGED stepvars

\* self.ws.close() closes the socket of the current WebSocketApp; its
\* thread calls on_close later
disconnect ==
    /\ running' = FALSE
    /\ conns' = IF ws = 0 THEN conns
                ELSE [conns EXCEPT ![ws].close_called = TRUE,
                                   ![ws].sock = "closed"]
    /\ connected' = FALSE
    /\ transitions' = transitions + (IF connected THEN 1 ELSE 0)
    /\ calls' = <<>>
    /\ ret' = Returned("disconnect", <<>>, None)
    /\ UNCHANGED <<asset_ids, ws, orderbooks, trades_history, last_prices,
                   received, disconnected_calls, unexpected>>
    /\ UNCHANGED dbvars
    /\ UNCHANGED recvars
    /\ UNCHANGED stepvars

is_connected ==
    /\ ret' = Returned("is_connected", <<>>, connected)
    /\ calls' = <<>>
    /\ UNCHANGED <<asset_ids, running, connected, ws, conns, orderbooks,
                   trades_history, last_prices, received,
                   disconnected_calls, transitions, unexpected>>
    /\ UNCHANGED dbvars
    /\ UNCHANGED recvars
    /\ UNCHANGED stepvars

\* ------------------------------------------ MarketWebSocketClient: messages
max_trades_history == MaxHistory

\* data.get(key, default)
GetDefault(d, k, default) == IF k \in DOMAIN d THEN d[k] ELSE default

\* d[k] = v
Put(d, k, v) == [x \in DOMAIN d \cup {k} |-> IF x = k THEN v ELSE d[x]]

\* deque(maxlen).appendleft(x): a full deque drops its last item
AppendLeftUnbounded(dq, x, maxlen) == <<x>> \o dq

AppendLeft(dq, x, maxlen) ==
    SubSeq(<<x>> \o dq, 1, Min(Len(dq) + 1, maxlen))

\* the shared state a handler leaves and the callbacks it invoked
Handled(books, history, prices, recs, cbs) ==
    [orderbooks |-> books, trades_history |-> history, last_prices |-> prices,
     received |-> recs, calls |-> cbs]

Untouched(cbs) ==
    Handled(orderbooks, trades_history, last_prices, received, cbs)

\* _handle_book_event that adds the levels of the event to the snapshot
\* it holds
_handle_book_event_merging(data) ==
    LET asset_id == GetDefault(data, "asset_id", "")
        old == GetDefault(orderbooks, asset_id,
                          [bids |-> <<>>, asks |-> <<>>])
        book == [bids |-> old.bids \o GetDefault(data, "bids", <<>>),
                 asks |-> old.asks \o GetDefault(data, "asks", <<>>),
                 timestamp |-> GetDefault(data, "timestamp", ""),
                 hash |-> GetDefault(data, "hash", "")]
    IN  Handled(Put(orderbooks, asset_id, book), trades_history, last_prices,
                received, <<Callback("on_book", data)>>)

_handle_book_event(data) ==
    LET asset_id == GetDefault(data, "asset_id", "")
        book == [bids |-> GetDefault(data, "bids", <<>>),
                 asks |-> GetDefault(data, "asks", <<>>),
                 timestamp |-> GetDefault(data, "timestamp", ""),
                 hash |-> GetDefault(data, "hash", "")]
    IN  Handled(Put(orderbooks, asset_id, book), trades_history, last_prices,
                received, <<Callback("on_book", data)>>)

\* _handle_price_change_event that treats the event as a book snapshot
_handle_price_change_event_as_book(data) == _handle_book_event(data)

_handle_price_change_event(data) ==
    Untouched(<<Callback("on_price_change", data)>>)

_handle_tick_size_change_event(data) ==
    Untouched(<<Callback("on_tick_size_change", data)>>)

TradeRecord(data) ==
    [asset_id |-> GetDefault(data, "asset_id", ""),
     price |-> GetDefault(data, "price", "0"),
     size |-> GetDefault(data, "size", "0"),
     side |-> GetDefault(data, "side", ""),
     fee_rate_bps |-> GetDefault(data, "fee_rate_bps", "0"),
     timestamp |-> GetDefault(data, "timestamp", ""),
     market |-> GetDefault(data, "market", "")]

\* the trade callback, with the buffer and the cache as it finds them
OnTrade(trade_record, history, prices) ==
    [name |-> "on_trade", arg |-> trade_record,
     trades_history |-> history, last_prices |-> prices]

\* _handle_trade_event that forwards the trade before it stores it
_handle_trade_event_callback_first(data) ==
    LET trade_record == TradeRecord(data)
    IN  Handled(orderbooks,
                AppendLeft(trades_history, trade_record, max_trades_history),
                Put(last_prices, trade_record.asset_id, trade_record),
                Append(received, trade_record),
                <<OnTrade(trade_record, trades_history, last_prices)>>)

_handle_trade_event(data) ==
    LET trade_record == TradeRecord(data)
        history == AppendLeft(trades_history, trade_record,
                              max_trades_history)
        prices == Put(last_prices, trade_record.asset_id, trade_record)
    IN  Handled(orderbooks, history, prices, Append(received, trade_record),
                <<OnTrade(trade_record, history, prices)>>)

\* _on_message that reports an unknown event type to the error callback
OnMessageUnknownIsError(message) ==
    IF message = Text("PONG") THEN Untouched(<<>>)
    ELSE IF message.kind = "text" THEN Untouched(<<>>)
    ELSE IF message.kind = "list"
    THEN Untouched(<<Callback("on_error", "AttributeError")>>)
    ELSE LET data == message.obj
             event_type == GetDefault(data, "event_type", "")
         IN  IF event_type = "book" THEN _handle_book_event(data)
             ELSE IF event_type = "price_change"
             THEN _handle_price_change_event(data)
             ELSE IF event_type = "last_trade_price"
             THEN _handle_trade_event(data)
             ELSE IF event_type = "tick_size_change"
             THEN _handle_tick_size_change_event(data)
             ELSE Untouched(<<Callback("on_error", "unknown event")>>)

\* what _on_message does with a frame: "PONG" returns at once; a text that
\* is no JSON raises JSONDecodeError, which is logged; a JSON array has no
\* get, and the AttributeError goes to the error callback; an object is
\* dispatched on its event_type
OnMessage(message) ==
    IF message = Text("PONG") THEN Untouched(<<>>)
    ELSE IF message.kind = "text" THEN Untouched(<<>>)
    ELSE IF message.kind = "list"
    THEN Untouched(<<Callback("on_error", "AttributeError")>>)
    ELSE LET data == message.obj
             event_type == GetDefault(data, "event_type", "")
         IN  IF event_type = "book" THEN _handle_book_event(data)
             ELSE IF event_type = "price_change"
             THEN _handle_price_change_event(data)
             ELSE IF event_type = "last_trade_price"
             THEN _handle_trade_event(data)
             ELSE IF event_type = "tick_size_change"
             THEN _handle_tick_size_change_event(data)
             ELSE Untouched(<<>>)

\* the receive loop of connection c hands a frame to on_message
_on_message(c, message) ==
    /\ conns[c].sock = "open"
    /\ LET r == OnMessage(message)
       IN  /\ Len(r.received) <= MaxEvents
           /\ orderbooks' = r.orderbooks
           /\ trades_history' = r.trades_history
           /\ last_prices' = r.last_prices
           /\ received' = r.received
           /\ calls' = r.calls
    /\ ret' = Returned("_on_message", <<message, c>>, None)
    /\ UNCHANGED <<asset_ids, running, connected, ws, conns,
                   disconnected_calls, transitions, unexpected>>
    /\ UNCHANGED dbvars
    /\ UNCHANGED recvars
    /\ UNCHANGED stepvars

\* a reader that does not take the lock
LockIgnored == TRUE

\* with self._lock: the caller goes on when no thread holds the lock, and
\* holds it to the end of the block
LockFree == lock = "free"

get_orderbook(asset_id) ==
    /\ LockFree
    /\ ret' = Returned("get_orderbook", <<asset_id>>,
                       GetDefault(orderbooks, asset_id, None))
    /\ calls' = <<>>
    /\ UNCHANGED <<asset_ids, running, connected, ws, conns, orderbooks,
                   trades_history, last_prices, received,
                   disconnected_calls, transitions, unexpected>>
    /\ UNCHANGED dbvars
    /\ UNCHANGED recvars
    /\ UNCHANGED stepvars

\* list(self.trades_history)[:limit]
SliceTo(s, limit) ==
    IF limit >= 0 THEN SubSeq(s, 1, Min(limit, Len(s)))
    ELSE SubSeq(s, 1, IF Len(s) + limit > 0 THEN Len(s) + limit ELSE 0)

get_recent_trades(limit) ==
    /\ LockFree
    /\ ret' = Returned("get_recent_trades", <<limit>>,
                       SliceTo(trades_history, limit))
    /\ calls' = <<>>
    /\ UNCHANGED <<asset_ids, running, connected, ws, conns, orderbooks,
                   trades_history, last_prices, received,
                   disconnected_calls, transitions, unexpected>>
    /\ UNCHANGED dbvars
    /\ UNCHANGED recvars
    /\ UNCHANGED stepvars

get_last_price(asset_id) ==
    /\ LockFree
    /\ ret' = Returned("get_last_price", <<asset_id>>,
                       GetDefault(last_prices, asset_id, None))
    /\ calls' = <<>>
    /\ UNCHANGED <<asset_ids, running, connected, ws, conns, orderbooks,
                   trades_history, last_prices, received,
                   disconnected_calls, transitions, unexpected>>
    /\ UNCHANGED dbvars
    /\ UNCHANGED recvars
    /\ UNCHANGED stepvars

\* The handlers of the receive thread, statement by statement, for the
\* runs in which reader threads call the getters in between.
\* _handle_trade_event builds the record and enters the with block
trade_event_lock(c, message) ==
    /\ conns[c].sock = "open"
    /\ handling = <<>>
    /\ Len(received) < MaxEvents
    /\ message.kind = "dict"
    /\ GetDefault(message.obj, "event_type", "") = "last_trade_price"
    /\ LockFree
    /\ lock' = "receive"
    /\ handling' = <<[kind |-> "trade", data |-> TradeRecord(message.obj)]>>
    /\ calls' = <<>>
    /\ ret' = Returned("trade_event_lock", <<message, c>>, None)
    /\ UNCHANGED <<asset_ids, running, connected, ws, conns, orderbooks,
                   trades_history, last_prices, received,
                   disconnected_calls, transitions, unexpected>>
    /\ UNCHANGED <<opening, stopping, inserting>>
    /\ UNCHANGED dbvars
    /\ UNCHANGED recvars

\* self.trades_history.appendleft(trade_record)
trade_event_appendleft ==
    /\ lock = "receive"
    /\ handling # <<>>
    /\ handling[1].kind = "trade"
    /\ trades_history' = AppendLeft(trades_history, handling[1].data,
                                    max_trades_history)
    /\ received' = Append(received, handling[1].data)
    /\ handling' = <<[kind |-> "appended", data |-> handling[1].data]>>
    /\ calls' = <<>>
    /\ ret' = Returned("trade_event_appendleft", <<>>, None)
    /\ UNCHANGED <<asset_ids, running, connected, ws, conns, orderbooks,
                   last_prices, disconnected_calls, transitions, unexpected>>
    /\ UNCHANGED <<lock, opening, stopping, inserting>>
    /\ UNCHANGED dbvars
    /\ UNCHANGED recvars

\* self.last_prices[asset_id] = trade_record, the end of the with block,
\* and the trade callback
trade_event_cache ==
    /\ lock = "receive"
    /\ handling # <<>>
    /\ handling[1].kind = "appended"
    /\ last_prices' = Put(last_prices, handling[1].data.asset_id,
                          handling[1].data)
    /\ lock' = "free"
    /\ handling' = <<>>
    /\ calls' = <<OnTrade(handling[1].data, trades_history, last_prices')>>
    /\ ret' = Returned("trade_event_cache", <<>>, None)
    /\ UNCHANGED <<asset_ids, running, connected, ws, conns, orderbooks,
                   trades_history, received, disconnected_calls,
                   transitions, unexpected>>
    /\ UNCHANGED <<opening, stopping, inserting>>
    /\ UNCHANGED dbvars
    /\ UNCHANGED recvars

\* _handle_book_event enters the with block
book_event_lock(c, message) ==
    /\ conns[c].sock = "open"
    /\ handling = <<>>
    /\ message.kind = "dict"
    /\ GetDefault(message.obj, "event_type", "") = "book"
    /\ LockFree
    /\ lock' = "receive"
    /\ handling' = <<[kind |-> "book", data |-> message.obj]>>
    /\ calls' = <<>>
    /\ ret' = Returned("book_event_lock", <<message, c>>, None)
    /\ UNCHANGED <<asset_ids, running, connected, ws, conns, orderbooks,
                   trades_history, last_prices, received,
                   disconnected_calls, transitions, unexpected>>
    /\ UNCHANGED <<opening, stopping, inserting>>
    /\ UNCHANGED dbvars
    /\ UNCHANGED recvars

\* self.orderbooks[asset_id] = {...}, the end of the with block, and the
\* book callback
book_event_store ==
    /\ lock = "receive"
    /\ handling # <<>>
    /\ handling[1].kind = "book"
    /\ LET r == _handle_book_event(handling[1].data)
       IN  /\ orderbooks' = r.orderbooks
           /\ calls' = r.calls
    /\ lock' = "free"
    /\ handling' = <<>>
    /\ ret' = Returned("book_event_store", <<>>, None)
    /\ UNCHANGED <<asset_ids, running, connected, ws, conns, trades_history,
                   last_prices, received, disconnected_calls, transitions,
                   unexpected>>
    /\ UNCHANGED <<opening, stopping, inserting>>
    /\ UNCHANGED dbvars
    /\ UNCHANGED recvars

\* ------------------------------------------------------------------- inputs
\* the texts "a", "a_1" (asset ids) and "", "1_2", "2" (timestamps)
AssetA  == <<97>>
AssetA1 == <<97, 95, 49>>
TsEmpty == <<>>
Ts1_2   == <<49, 95, 50>>
Ts2     == <<50>>

Trade(asset_id, timestamp, price, size, side, source, market_id, outcome) ==
    [market_id |-> market_id, asset_id |-> asset_id, side |-> side,
     outcome |-> outcome, price |-> price, size |-> size,
     fee_rate_bps |-> None, timestamp |-> timestamp, source |-> source]

\* a dict without the required keys
MalformedTrade == [asset_id |-> AssetA]

\* (price, size) pairs: every price with one size, every size with one price
Quantities == {q \in (0..MaxQty) \X (0..MaxQty) : q[1] = 0 \/ q[2] = 0}

\* trades that vary the four fields of the dedup key, and the trades of one
\* key that vary the other fields
KeyTrades ==
    {Trade(k[1], k[2], q[1], q[2], "BUY", "websocket", "m1", "UP") :
        k \in {<<AssetA, Ts2>>, <<AssetA, Ts1_2>>, <<AssetA1, Ts2>>},
        q \in Quantities}
    \cup {Trade(AssetA, Ts2, 0, 0, v[1], v[2], v[3], v[4]) :
        v \in {<<"SELL", "websocket", "m1", "UP">>,
               <<"BUY", "rest_api", "m1", "UP">>,
               <<"SELL", "rest_api", "m2", "DOWN">>,
               <<"", "websocket", "m1", "UP">>}}

MarketIds == {"m1", "m2"}

Market(market_id, question, closed) ==
    [market_id |-> market_id, question |-> question, outcome_up |-> "UP",
     outcome_down |-> "DOWN", token_up |-> "a", token_down |-> "a_1",
     closed |-> closed]

OneMarket == {Market("m1", "q1", FALSE)}

\* a few trades for the runs that exercise every operation: two of one key
\* from the two sources, one of another market, one the CHECK rejects
FewTrades ==
    {Trade(AssetA, Ts2, 0, 0, "BUY", "websocket", "m1", "UP"),
     Trade(AssetA, Ts2, 0, 0, "SELL", "rest_api", "m2", "DOWN"),
     Trade(AssetA1, Ts1_2, 0, MaxQty, "SELL", "rest_api", "m2", "DOWN"),
     Trade(AssetA, TsEmpty, 0, 0, "", "websocket", "m1", "UP")}

\* trades whose side or source is null or outside the sets of the schema
BadTrades ==
    {Trade(AssetA, Ts2, 0, 0, "buy", "websocket", "m1", "UP"),
     Trade(AssetA, Ts2, 0, 0, None, "websocket", "m1", "UP"),
     Trade(AssetA, Ts2, 0, 0, "BUY", "stream", "m1", "UP"),
     Trade(AssetA, Ts2, 0, 0, "SELL", "", "m1", "UP"),
     Trade(AssetA, Ts2, 0, 0, "", None, "m1", "UP")}

\* the two trades of FewTrades that share a dedup key
SameKeyTrades == {td \in FewTrades : td.asset_id = AssetA /\ td.timestamp = Ts2}

\* the items of a batch: the first three of these and a malformed dict
BatchItems ==
    {td \in FewTrades : td.side # ""} \cup {MalformedTrade}

Batches == UNION {[1..n -> BatchItems] : n \in 1..MaxBatch}

\* trades that vary what the queries select and order on
QueryTrades ==
    {Trade(v[3], t, 0, 0, "BUY", "websocket", v[1], v[2]) :
        v \in {<<"m1", "UP", AssetA>>, <<"m1", "DOWN", AssetA1>>,
               <<"m1", "", AssetA1>>, <<"m2", "UP", AssetA>>},
        t \in {TsEmpty, Ts1_2, Ts2}}

TimeBounds == {NoText, TsEmpty, Ts1_2, Ts2}
OutcomeFilters == {None, "", "UP", "DOWN"}

\* market dicts that vary the mutable fields, one with a NULL question and
\* one without the required keys
MarketInputs ==
    {Market(m, q, c) : m \in MarketIds, q \in {"q1", "q2"}, c \in BOOLEAN}
    \cup {Market("m1", None, FALSE), [market_id |-> "m1"]}

\* ------------------------------------------------------------ specification
\* the asset-id lists a client is constructed with
AssetIdLists == {<<"a">>, <<"a", "b">>}

\* last_trade_price events with every field the wire format names
TradeEvent(asset_id, price) ==
    [event_type |-> "last_trade_price", asset_id |-> asset_id,
     price |-> price, size |-> "1", side |-> "BUY", fee_rate_bps |-> "0",
     timestamp |-> "1", market |-> "m"]

WellFormedTrades ==
    {Dict(TradeEvent("a", "1")), Dict(TradeEvent("a", "2")),
     Dict(TradeEvent("b", "1"))}

\* records with fields missing
MissingFields ==
    {Dict([event_type |-> "last_trade_price", side |-> "BUY"]),
     Dict([event_type |-> "book"])}

\* the heartbeat ack, and records of an unknown or absent event type
Dropped ==
    {Text("PONG"), Dict([event_type |-> "new_event", asset_id |-> "a"]),
     Dict([asset_id |-> "a", price |-> "1"])}

\* a text that is no JSON, and a JSON array
Undecodable == {Text("{"), JsonList}

OtherEvents ==
    {Dict([event_type |-> "book", asset_id |-> "a", bids |-> <<"1">>,
           asks |-> <<"2">>, timestamp |-> "1", hash |-> "h"]),
     Dict([event_type |-> "book", asset_id |-> "a", bids |-> <<>>,
           asks |-> <<"3">>, timestamp |-> "2", hash |-> "g"]),
     Dict([event_type |-> "book", asset_id |-> "b", bids |-> <<"1">>]),
     Dict([event_type |-> "price_change", asset_id |-> "a"]),
     Dict([event_type |-> "tick_size_change", asset_id |-> "a"])}

Frames ==
    WellFormedTrades \cup MissingFields \cup Dropped \cup Undecodable
    \cup OtherEvents

Limits == 0..(MaxHistory + 1)

AssetNames == {"a", "b", ""}

\* ---------------------------------------------------------------------
\* TickRecorder (tick_recorder.py) and the record command (tick_tool.py).
\* Texts that the recorder only copies are strings; Chars gives the
\* character codes the store keeps for asset_id and timestamp. A field of
\* an upstream record that may be a JSON array or the text of one is
\* List(items) or Encoded(text of character codes). The recorder's own
\* stream client is seen through the calls the recorder makes on it,
\* which effects lists in order.

NoTime == -1

List(items) == [type |-> "list", items |-> items]
Encoded(text) == [type |-> "str", text |-> text]

\* the character codes of the texts the model uses
Chars(s) ==
    CASE s = ""     -> <<>>
      [] s = "a"    -> <<97>>
      [] s = "b"    -> <<98>>
      [] s = "c"    -> <<99>>
      [] s = "d"    -> <<100>>
      [] s = "e"    -> <<101>>
      [] s = "z"    -> <<122>>
      [] s = "1"    -> <<49>>
      [] s = "2"    -> <<50>>
      [] s = "["    -> <<91>>
      [] s = "]"    -> <<93>>
      [] s = "Up"   -> <<85, 112>>
      [] s = "Down" -> <<68, 111, 119, 110>>

Alphabet ==
    {"", "a", "b", "c", "d", "e", "z", "1", "2", "[", "]", "Up", "Down"}

\* the text of the given character codes
Str(chars) == CHOOSE s \in Alphabet : Chars(s) = chars

\* json.dumps of a list of texts: ["a", "b"]
RECURSIVE JoinQuoted(_, _)
JoinQuoted(items, i) ==
    IF i > Len(items) THEN <<>>
    ELSE (IF i > 1 THEN <<44, 32>> ELSE <<>>)
         \o <<34>> \o Chars(items[i]) \o <<34>> \o JoinQuoted(items, i + 1)

JsonDumps(items) == <<91>> \o JoinQuoted(items, 1) \o <<93>>

\* len(x) and x[i] of a list, and of a str, whose items are its characters
len(x) == IF x.type = "list" THEN Len(x.items) ELSE Len(x.text)

Item(x, i) == IF x.type = "list" THEN x.items[i + 1] ELSE Str(<<x.text[i + 1]>>)

\* float(x) of the texts the stream sends, in units of 5e-7; a text that
\* is no number raises ValueError
FloatRaises(x) == x \notin {"0", "0.0000005", "0.000001"}

float(x) ==
    CASE x = "0"         -> 0
      [] x = "0.0000005" -> 1
      [] x = "0.000001"  -> 2

\* int(x) of a text, as the decimal text of the integer
IntRaises(x) == x \notin {"0", "00", "7"}

int(x) ==
    CASE x = "0"  -> "0"
      [] x = "00" -> "0"
      [] x = "7"  -> "7"

\* PolymarketAPIClient.get_market_by_id: data[0] of the answer, or None
get_market_by_id(market_id) ==
    IF market_id \in DOMAIN upstream
    THEN [found |-> TRUE, market |-> upstream[market_id]]
    ELSE [found |-> FALSE, market |-> <<>>]

\* one turn of the loop of _fetch_market_metadata: a market that is not
\* found, or whose clobTokenIds or outcomes has not length 2, is skipped.
\* The entries are stored before the line that prints question[:60], so
\* the TypeError that line raises for a null question, which the loop
\* catches, leaves them in place.
FetchOne(market_id, acc) ==
    LET got == get_market_by_id(market_id)
        market == got.market
        clob_tokens == GetDefault(market, "clobTokenIds", List(<<>>))
        outcomes == GetDefault(market, "outcomes", List(<<>>))
    IN  IF ~got.found THEN acc
        ELSE IF len(clob_tokens) # 2 \/ len(outcomes) # 2 THEN acc
        ELSE LET token_up == Item(clob_tokens, 0)
                 token_down == Item(clob_tokens, 1)
                 outcome_up == Item(outcomes, 0)
                 outcome_down == Item(outcomes, 1)
                 metadata ==
                     [market_id    |-> Get(market, "id"),
                      question     |-> Get(market, "question"),
                      outcome_up   |-> outcome_up,
                      outcome_down |-> outcome_down,
                      token_up     |-> token_up,
                      token_down   |-> token_down,
                      created_at   |-> Get(market, "createdAt"),
                      closed       |-> GetDefault(market, "closed", FALSE),
                      closed_time  |-> Get(market, "closedTime")]
             IN  [markets_metadata |->
                      Put(acc.markets_metadata, market_id, metadata),
                  token_map |->
                      Put(Put(acc.token_map, token_up,
                              <<market_id, outcome_up>>),
                          token_down, <<market_id, outcome_down>>)]

\* for i, market_id in enumerate(self.market_ids, 1)
RECURSIVE _fetch_market_metadata(_, _, _)
_fetch_market_metadata(ids, i, acc) ==
    IF i > Len(ids) THEN acc
    ELSE _fetch_market_metadata(ids, i + 1, FetchOne(ids[i], acc))

\* _save_market_metadata: insert_market for every entry; an insert that
\* raises is reported and the loop goes on
_save_market_metadata(M, metadata, t) ==
    LET saved == {m \in DOMAIN metadata : ~MarketRaises(metadata[m])}
    IN  {r \in M : \A m \in saved : r.market_id # metadata[m].market_id}
        \cup {MarketRow(M, metadata[m], t) : m \in saved}

\* MarketWebSocketClient.__init__ takes these parameters and no others
InitParameters ==
    {"asset_ids", "on_book", "on_price_change", "on_trade",
     "on_tick_size_change", "on_error", "on_connected", "on_disconnected",
     "max_trades_history", "verbose"}

\* the keywords start_recording passes to it
StartKeywords == {"asset_ids", "on_trade_callback", "on_error_callback"}

\* a keyword that is no parameter raises TypeError
ConstructorRaises == ~(StartKeywords \subseteq InitParameters)

Effect(name) == [do |-> name]

\* the trade_data that _on_trade builds from a trade of a mapped token;
\* a missing price or size is float(0), a falsy fee is None
TradeData(trade, map) ==
    LET asset_id == GetDefault(trade, "asset_id", "")
        fee == GetDefault(trade, "fee_rate_bps", "")
    IN  [market_id    |-> map[asset_id][1],
         asset_id     |-> Chars(asset_id),
         side         |-> GetDefault(trade, "side", ""),
         outcome      |-> map[asset_id][2],
         price        |-> float(GetDefault(trade, "price", "0")),
         size         |-> float(GetDefault(trade, "size", "0")),
         fee_rate_bps |-> IF fee # "" THEN int(fee) ELSE None,
         timestamp    |-> Chars(GetDefault(trade, "timestamp", "")),
         source       |-> "websocket"]

\* float or int of a field of the trade raises ValueError
ConversionRaises(trade) ==
    \/ FloatRaises(GetDefault(trade, "price", "0"))
    \/ FloatRaises(GetDefault(trade, "size", "0"))
    \/ LET fee == GetDefault(trade, "fee_rate_bps", "")
       IN  fee # "" /\ IntRaises(fee)

StoreCall(td, status, value) ==
    [name |-> "insert_trade", arg |-> td, status |-> status, value |-> value]

\* if inserted: self.trades_recorded += 1
CountEveryCall(count, inserted) == count + 1

Count(count, inserted) == IF inserted THEN count + 1 ELSE count

\* _on_trade that stores the trade of a token it does not know, under no
\* market
OnTradeResultUnknownStored(T, trade, t) ==
    LET asset_id == GetDefault(trade, "asset_id", "")
        map == IF asset_id \in DOMAIN token_map THEN token_map
               ELSE Put(token_map, asset_id, <<None, None>>)
        skipped == [rows |-> T, count |-> trades_recorded, calls |-> <<>>]
    IN  IF ConversionRaises(trade) THEN skipped
        ELSE IF db = "None" THEN skipped
        ELSE LET trade_data == TradeData(trade, map)
                 r == InsertTradeResult(T, trade_data, t)
             IN  IF db = "closed"
                 THEN [skipped EXCEPT
                           !.calls = <<StoreCall(trade_data, "raise", FALSE)>>]
                 ELSE [rows |-> r.rows,
                       count |-> Count(trades_recorded, r.inserted),
                       calls |-> <<StoreCall(trade_data, "ok", r.inserted)>>]

\* the body of _on_trade on table T at time t: a trade of a token that is
\* not in the map returns at once; every exception is caught and reported:
\* the ValueError of a conversion, the AttributeError of a recorder that
\* has no store yet, the ProgrammingError of a closed store
OnTradeResult(T, trade, t) ==
    LET asset_id == GetDefault(trade, "asset_id", "")
        skipped == [rows |-> T, count |-> trades_recorded, calls |-> <<>>]
    IN  IF asset_id \notin DOMAIN token_map THEN skipped
        ELSE IF ConversionRaises(trade) THEN skipped
        ELSE IF db = "None" THEN skipped
        ELSE LET trade_data == TradeData(trade, token_map)
                 r == InsertTradeResult(T, trade_data, t)
             IN  IF db = "closed"
                 THEN [skipped EXCEPT
                           !.calls = <<StoreCall(trade_data, "raise", FALSE)>>]
                 ELSE [rows |-> r.rows,
                       count |-> Count(trades_recorded, r.inserted),
                       calls |-> <<StoreCall(trade_data, "ok", r.inserted)>>]

_on_trade(trade) ==
    /\ process = "running"
    /\ LET r == OnTradeResult(trades, trade, now)
       IN  /\ Cardinality(r.rows) <= MaxRows
           /\ trades' = r.rows
           /\ trades_recorded' = r.count
           /\ rec_calls' = r.calls
    /\ ret' = Returned("_on_trade", <<trade>>, None)
    /\ UNCHANGED <<markets, now, files>>
    /\ UNCHANGED <<upstream, market_ids, rec_running, db, ws_client,
                   token_map, markets_metadata, rec_start_time, effects,
                   process>>
    /\ UNCHANGED wsvars
    /\ UNCHANGED stepvars

\* what stop_recording does once the running flag is found set: the client,
\* if there is one, is disconnected, the store, if there is one, is closed,
\* and the summary is printed if the recorder had been started
Stopped(client, store, started, log) ==
    [db |-> IF store = "None" THEN "None" ELSE "closed",
     effects |->
         log
         \o (IF client # "None" THEN <<Effect("disconnect")>> ELSE <<>>)
         \o (IF store # "None" THEN <<Effect("close")>> ELSE <<>>)
         \o (IF started # NoTime THEN <<Effect("summary")>> ELSE <<>>)]

stop_recording ==
    /\ process = "running"
    /\ IF ~rec_running
       THEN UNCHANGED <<rec_running, db, effects>>
       ELSE LET s == Stopped(ws_client, db, rec_start_time, effects)
            IN  /\ rec_running' = FALSE
                /\ db' = s.db
                /\ effects' = s.effects
    /\ rec_calls' = <<>>
    /\ ret' = Returned("stop_recording", <<>>, None)
    /\ UNCHANGED <<upstream, market_ids, ws_client, token_map,
                   markets_metadata, trades_recorded, rec_start_time, process>>
    /\ UNCHANGED dbvars
    /\ UNCHANGED wsvars
    /\ UNCHANGED stepvars

\* SIGINT or SIGTERM: stop_recording, then sys.exit(0)
_signal_handler ==
    /\ process = "running"
    /\ IF ~rec_running
       THEN UNCHANGED <<rec_running, db, effects>>
       ELSE LET s == Stopped(ws_client, db, rec_start_time, effects)
            IN  /\ rec_running' = FALSE
                /\ db' = s.db
                /\ effects' = s.effects
    /\ process' = "exit 0"
    /\ rec_calls' = <<>>
    /\ ret' = Raised("_signal_handler", <<>>)
    /\ UNCHANGED <<upstream, market_ids, ws_client, token_map,
                   markets_metadata, trades_recorded, rec_start_time>>
    /\ UNCHANGED dbvars
    /\ UNCHANGED wsvars
    /\ UNCHANGED stepvars

\* stop_recording statement by statement, entered by a call or by the
\* signal handler: the test and the reset of the running flag
stop_begin(by) ==
    /\ process = "running"
    /\ stopping = <<>>
    /\ IF rec_running
       THEN /\ rec_running' = FALSE
            /\ stopping' = <<[by |-> by, stage |-> "flagged"]>>
            /\ UNCHANGED process
       ELSE /\ process' = IF by = "signal" THEN "exit 0" ELSE process
            /\ UNCHANGED <<rec_running, stopping>>
    /\ rec_calls' = <<>>
    /\ ret' = IF process' = "running"
              THEN Returned("stop_begin", <<by>>, None)
              ELSE Raised("stop_begin", <<by>>)
    /\ UNCHANGED <<upstream, market_ids, db, ws_client, token_map,
                   markets_metadata, trades_recorded, rec_start_time,
                   effects>>
    /\ UNCHANGED <<lock, handling, opening, inserting>>
    /\ UNCHANGED dbvars
    /\ UNCHANGED wsvars

\* if self.ws_client: self.ws_client.disconnect()
stop_disconnect ==
    /\ process = "running"
    /\ stopping # <<>>
    /\ stopping[1].stage = "flagged"
    /\ effects' = IF ws_client # "None"
                  THEN Append(effects, Effect("disconnect"))
                  ELSE effects
    /\ stopping' = <<[stopping[1] EXCEPT !.stage = "disconnected"]>>
    /\ rec_calls' = <<>>
    /\ ret' = Returned("stop_disconnect", <<>>, None)
    /\ UNCHANGED <<upstream, market_ids, rec_running, db, ws_client,
                   token_map, markets_metadata, trades_recorded,
                   rec_start_time, process>>
    /\ UNCHANGED <<lock, handling, opening, inserting>>
    /\ UNCHANGED dbvars
    /\ UNCHANGED wsvars

\* if self.db: self.db.close()
stop_close ==
    /\ process = "running"
    /\ stopping # <<>>
    /\ stopping[1].stage = "disconnected"
    /\ db' = IF db = "None" THEN "None" ELSE "closed"
    /\ effects' = IF db # "None"
                  THEN Append(effects, Effect("close"))
                  ELSE effects
    /\ stopping' = <<[stopping[1] EXCEPT !.stage = "closed"]>>
    /\ rec_calls' = <<>>
    /\ ret' = Returned("stop_close", <<>>, None)
    /\ UNCHANGED <<upstream, market_ids, rec_running, ws_client, token_map,
                   markets_metadata, trades_recorded, rec_start_time,
                   process>>
    /\ UNCHANGED <<lock, handling, opening, inserting>>
    /\ UNCHANGED dbvars
    /\ UNCHANGED wsvars

\* if self.start_time: the summary is printed
stop_summary ==
    /\ process = "running"
    /\ stopping # <<>>
    /\ stopping[1].stage = "closed"
    /\ effects' = IF rec_start_time # NoTime
                  THEN Append(effects, Effect("summary"))
                  ELSE effects
    /\ stopping' = <<[stopping[1] EXCEPT !.stage = "summarised"]>>
    /\ rec_calls' = <<>>
    /\ ret' = Returned("stop_summary", <<>>, None)
    /\ UNCHANGED <<upstream, market_ids, rec_running, db, ws_client,
                   token_map, markets_metadata, trades_recorded,
                   rec_start_time, process>>
    /\ UNCHANGED <<lock, handling, opening, inserting>>
    /\ UNCHANGED dbvars
    /\ UNCHANGED wsvars

\* stop_recording returns: to its caller, or to the signal handler, which
\* calls sys.exit(0)
stop_return ==
    /\ process = "running"
    /\ stopping # <<>>
    /\ stopping[1].stage = "summarised"
    /\ process' = IF stopping[1].by = "signal" THEN "exit 0" ELSE process
    /\ stopping' = <<>>
    /\ rec_calls' = <<>>
    /\ ret' = IF stopping[1].by = "signal"
              THEN Raised("stop_return", <<>>)
              ELSE Returned("stop_return", <<>>, None)
    /\ UNCHANGED <<upstream, market_ids, rec_running, db, ws_client,
                   token_map, markets_metadata, trades_recorded,
                   rec_start_time, effects>>
    /\ UNCHANGED <<lock, handling, opening, inserting>>
    /\ UNCHANGED dbvars
    /\ UNCHANGED wsvars

\* a signal is delivered while stop_recording is in progress on the main
\* thread: the handler runs on top of it, its own stop_recording returns
\* at once because the flag is already reset, and its sys.exit(0) raises
\* SystemExit through the interrupted stop_recording, whose remaining
\* statements are never executed
signal_during_stop ==
    /\ process = "running"
    /\ stopping # <<>>
    /\ process' = "exit 0"
    /\ stopping' = <<>>
    /\ rec_calls' = <<>>
    /\ ret' = Raised("signal_during_stop", <<stopping[1].stage>>)
    /\ UNCHANGED <<upstream, market_ids, rec_running, db, ws_client,
                   token_map, markets_metadata, trades_recorded,
                   rec_start_time, effects>>
    /\ UNCHANGED <<lock, handling, opening, inserting>>
    /\ UNCHANGED dbvars
    /\ UNCHANGED wsvars

\* _on_trade on the thread of its caller, up to the call of the store: the
\* token is looked up and trade_data is built
on_trade_begin(trade) ==
    /\ process = "running"
    /\ inserting = <<>>
    /\ LET asset_id == GetDefault(trade, "asset_id", "")
       IN  inserting' = IF \/ asset_id \notin DOMAIN token_map
                          \/ ConversionRaises(trade)
                       THEN <<>>
                       ELSE <<TradeData(trade, token_map)>>
    /\ rec_calls' = <<>>
    /\ ret' = Returned("on_trade_begin", <<trade>>, None)
    /\ UNCHANGED <<upstream, market_ids, rec_running, db, ws_client,
                   token_map, markets_metadata, trades_recorded,
                   rec_start_time, effects, process>>
    /\ UNCHANGED <<lock, handling, opening, stopping>>
    /\ UNCHANGED dbvars
    /\ UNCHANGED wsvars

\* self.db.insert_trade(trade_data) and the count; the AttributeError of a
\* recorder without a store and the error of a closed store are caught
on_trade_insert ==
    /\ process = "running"
    /\ inserting # <<>>
    /\ LET trade_data == inserting[1]
           r == InsertTradeResult(trades, trade_data, now)
       IN  IF db = "open"
           THEN /\ Cardinality(r.rows) <= MaxRows
                /\ trades' = r.rows
                /\ trades_recorded' = Count(trades_recorded, r.inserted)
                /\ rec_calls' = <<StoreCall(trade_data, "ok", r.inserted)>>
           ELSE /\ UNCHANGED <<trades, trades_recorded>>
                /\ rec_calls' = IF db = "closed"
                                THEN <<StoreCall(trade_data, "raise", FALSE)>>
                                ELSE <<>>
    /\ inserting' = <<>>
    /\ ret' = Returned("on_trade_insert", <<>>, None)
    /\ UNCHANGED <<markets, now, files>>
    /\ UNCHANGED <<upstream, market_ids, rec_running, db, ws_client,
                   token_map, markets_metadata, rec_start_time, effects,
                   process>>
    /\ UNCHANGED <<lock, handling, opening, stopping>>
    /\ UNCHANGED wsvars

\* TickDatabase(db_path) raises when the file cannot be created or opened
StoreRaisesNever(opens) == FALSE

StoreRaises(opens) == ~opens

\* the body of start_recording: what it leaves, and whether it returned or
\* raised. The stream client is constructed outside the try block, so the
\* TypeError of the constructor leaves the recorder running with its store
\* open. A client that could be constructed is connected; is_connected()
\* is False until the connection thread reports the open, so the wait
\* loop ends at once and the finally clause stops the recorder. When the
\* store cannot be opened, TickDatabase() raises after the flag and the
\* start time were set and before anything is resolved.
StartRecording(opens) ==
    LET same == [rec_running |-> rec_running,
                 rec_start_time |-> rec_start_time, db |-> db,
                 ws_client |-> ws_client, token_map |-> token_map,
                 markets_metadata |-> markets_metadata, markets |-> markets,
                 effects |-> effects, outcome |-> "returned"]
        fetched == _fetch_market_metadata(
                       market_ids, 1,
                       [markets_metadata |-> markets_metadata,
                        token_map |-> token_map])
        token_ids == DOMAIN fetched.token_map
        opened == [same EXCEPT !.rec_running = TRUE,
                               !.rec_start_time = now,
                               !.db = "open",
                               !.token_map = fetched.token_map,
                               !.markets_metadata = fetched.markets_metadata,
                               !.effects = <<>>]
        saved == [opened EXCEPT
                     !.markets = _save_market_metadata(
                                     markets, fetched.markets_metadata, now),
                     !.effects = <<Effect("save")>>]
        stopped == Stopped("client", "open", now,
                           saved.effects \o <<[do |-> "connect",
                                               asset_ids |-> token_ids]>>)
    IN  IF rec_running THEN same
        ELSE IF StoreRaises(opens)
        THEN [same EXCEPT !.rec_running = TRUE,
                          !.rec_start_time = now,
                          !.effects = <<>>,
                          !.outcome = "raised"]
        ELSE IF token_ids = {}
        THEN [opened EXCEPT !.effects = <<Effect("no valid markets")>>]
        ELSE IF ConstructorRaises THEN [saved EXCEPT !.outcome = "raised"]
        ELSE [saved EXCEPT !.ws_client = "client",
                           !.rec_running = FALSE,
                           !.db = stopped.db,
                           !.effects = stopped.effects]

start_recording(opens) ==
    /\ process = "running"
    /\ stopping = <<>>
    /\ LET s == StartRecording(opens)
       IN  /\ rec_running' = s.rec_running
           /\ rec_start_time' = s.rec_start_time
           /\ db' = s.db
           /\ ws_client' = s.ws_client
           /\ token_map' = s.token_map
           /\ markets_metadata' = s.markets_metadata
           /\ markets' = s.markets
           /\ effects' = s.effects
           /\ ret' = IF s.outcome = "raised"
                     THEN Raised("start_recording", <<opens>>)
                     ELSE Returned("start_recording", <<opens>>, None)
    /\ rec_calls' = <<>>
    /\ UNCHANGED <<trades, now, files>>
    /\ UNCHANGED <<upstream, market_ids, trades_recorded, process>>
    /\ UNCHANGED wsvars
    /\ UNCHANGED stepvars

\* a TickRecorder as its constructor leaves it
Constructed ==
    /\ rec_running = FALSE
    /\ db = "None"
    /\ ws_client = "None"
    /\ token_map = <<>>
    /\ markets_metadata = <<>>
    /\ trades_recorded = 0
    /\ rec_start_time = NoTime
    /\ effects = <<>>
    /\ rec_calls = <<>>

\* cmd_record with the market ids its arguments gave: none is an error and
\* sys.exit(1); otherwise a recorder is constructed and started, and the
\* process ends when start_recording returns (status 0) or raises (the
\* traceback and status 1)
cmd_record(opens) ==
    /\ process = "running"
    /\ Constructed
    /\ IF market_ids = <<>>
       THEN /\ process' = "exit 1"
            /\ effects' = <<Effect("no markets to record")>>
            /\ UNCHANGED <<rec_running, rec_start_time, db, ws_client,
                           token_map, markets_metadata, markets>>
       ELSE LET s == StartRecording(opens)
            IN  /\ rec_running' = s.rec_running
                /\ rec_start_time' = s.rec_start_time
                /\ db' = s.db
                /\ ws_client' = s.ws_client
                /\ token_map' = s.token_map
                /\ markets_metadata' = s.markets_metadata
                /\ markets' = s.markets
                /\ effects' = s.effects
                /\ process' = IF s.outcome = "raised" THEN "exit 1"
                              ELSE "exit 0"
    /\ rec_calls' = <<>>
    /\ ret' = IF process' = "exit 0"
              THEN Returned("cmd_record", <<opens>>, None)
              ELSE Raised("cmd_record", <<opens>>)
    /\ UNCHANGED <<trades, now, files>>
    /\ UNCHANGED <<upstream, market_ids, trades_recorded>>
    /\ UNCHANGED wsvars
    /\ UNCHANGED stepvars

\* what the upstream API may hold for market m1: the two tokens and the
\* two outcomes as arrays, as the texts of arrays, as the texts of empty
\* arrays, three tokens, a null question; and for market m2
Upstream(id, question, clobTokenIds, outcomes) ==
    [id |-> id, question |-> question, clobTokenIds |-> clobTokenIds,
     outcomes |-> outcomes, closed |-> FALSE]

TokenLists ==
    {<<>>, <<"a", "b">>, <<"a", "b", "e">>, <<"c", "d">>, <<"a", "d">>}

OutcomeLists == {<<>>, <<"Up", "Down">>}

UpstreamM1 ==
    {Upstream("m1", "q", List(<<"a", "b">>), List(<<"Up", "Down">>)),
     Upstream("m1", "q", Encoded(JsonDumps(<<"a", "b">>)),
              Encoded(JsonDumps(<<"Up", "Down">>))),
     Upstream("m1", "q", Encoded(JsonDumps(<<>>)), Encoded(JsonDumps(<<>>))),
     Upstream("m1", "q", List(<<"a", "b", "e">>), List(<<"Up", "Down">>)),
     Upstream("m1", None, List(<<"a", "b">>), List(<<"Up", "Down">>))}

UpstreamM2 ==
    {Upstream("m2", "q", List(<<"c", "d">>), List(<<"Up", "Down">>)),
     Upstream("m2", "q", List(<<"a", "d">>), List(<<"Up", "Down">>))}

Upstreams ==
    {<<>>}
    \cup {[m \in {"m1"} |-> u] : u \in UpstreamM1}
    \cup {[m \in {"m2"} |-> u] : u \in UpstreamM2}
    \cup {[m \in {"m1", "m2"} |-> IF m = "m1" THEN u ELSE v] :
              u \in UpstreamM1, v \in UpstreamM2}

MarketIdLists == {<<>>, <<"m1">>, <<"m1", "m2">>, <<"m1", "m1">>}

\* the trades the stream client hands to the callback
StreamTrade(asset_id, price, side, fee_rate_bps) ==
    [asset_id |-> asset_id, price |-> price, size |-> "0.000001",
     side |-> side, fee_rate_bps |-> fee_rate_bps, timestamp |-> "1",
     market |-> "m"]

StreamTrades ==
    {StreamTrade("a", "0", "BUY", "0"),
     StreamTrade("a", "0.000001", "SELL", "00"),
     StreamTrade("b", "0", "BUY", ""),
     StreamTrade("c", "0", "BUY", "7"),
     StreamTrade("z", "0", "BUY", "0"),
     StreamTrade("a", "abc", "BUY", "0"),
     StreamTrade("a", "0", "", "0"),
     [side |-> "BUY"]}

\* no thread is inside a handler
Idle ==
    /\ lock = "free"
    /\ handling = <<>>
    /\ opening = 0
    /\ stopping = <<>>
    /\ inserting = <<>>

\* TickRecorder.__init__
RecorderInit(ids, api) ==
    /\ upstream = api
    /\ market_ids = ids
    /\ process = "running"
    /\ Constructed
    /\ Idle

\* TickDatabase.__init__ on a new file
StoreInit ==
    /\ trades = {}
    /\ markets = {}
    /\ now = 0
    /\ files = NoFile
    /\ ret = Returned("init", <<>>, None)

\* MarketWebSocketClient.__init__
ClientInit(ids) ==
    /\ asset_ids = ids
    /\ running = FALSE
    /\ connected = FALSE
    /\ ws = 0
    /\ conns = <<>>
    /\ orderbooks = <<>>
    /\ trades_history = <<>>
    /\ last_prices = <<>>
    /\ received = <<>>
    /\ calls = <<>>
    /\ disconnected_calls = 0
    /\ transitions = 0
    /\ unexpected = NoClose

Init ==
    /\ StoreInit
    /\ ClientInit(<<"a", "b">>)
    /\ RecorderInit(<<"m1">>, <<>>)

InitClient ==
    /\ StoreInit
    /\ \E ids \in AssetIdLists : ClientInit(ids)
    /\ RecorderInit(<<"m1">>, <<>>)

InitRecorder ==
    /\ StoreInit
    /\ ClientInit(<<"a", "b">>)
    /\ \E ids \in MarketIdLists : \E api \in Upstreams :
          RecorderInit(ids, api)

\* the write path and the dedup key
Next ==
    \/ \E td \in KeyTrades : insert_trade(td)
    \/ \E m \in MarketIds : get_market_summary(m)

Spec == Init /\ [][Next]_vars

\* the write path on a few trades, one at a time and in batches
NextWrite ==
    \/ \E td \in FewTrades \cup BadTrades \cup {MalformedTrade} :
          insert_trade(td)
    \/ \E batch \in Batches \cup [1..MaxBatch -> BadTrades] :
          insert_trades_batch(batch)
    \/ Tick

SpecWrite == Init /\ [][NextWrite]_vars

\* every operation of the store, on a few trades
NextAll ==
    \/ \E td \in FewTrades : insert_trade(td)
    \/ \E batch \in [1..MaxBatch -> SameKeyTrades] : insert_trades_batch(batch)
    \/ \E md \in OneMarket : insert_market(md)
    \/ \E m \in MarketIds : get_market(m)
    \/ \E m \in MarketIds : get_trades_by_market(m, NoText, NoText, None)
    \/ \E a \in {AssetA, AssetA1} : get_trades_by_token(a, NoText, NoText)
    \/ \E m \in MarketIds : get_market_summary(m)
    \/ \E m \in MarketIds : export_to_csv(m)
    \/ Tick

SpecAll == Init /\ [][NextAll]_vars

\* the read path
NextQuery ==
    \/ \E td \in QueryTrades : insert_trade(td)
    \/ \E m \in MarketIds, s \in TimeBounds, e \in TimeBounds,
          o \in OutcomeFilters : get_trades_by_market(m, s, e, o)
    \/ \E a \in {AssetA, AssetA1}, s \in TimeBounds, e \in TimeBounds :
          get_trades_by_token(a, s, e)

SpecQuery == Init /\ [][NextQuery]_vars

\* the markets table
NextMarket ==
    \/ \E md \in MarketInputs : insert_market(md)
    \/ \E m \in MarketIds : get_market(m)
    \/ \E td \in FewTrades : insert_trade(td)
    \/ Tick

SpecMarket == Init /\ [][NextMarket]_vars

\* the life of the client's connections
NextConn ==
    \/ connect
    \/ disconnect
    \/ is_connected
    \/ \E c \in DOMAIN conns : _on_open(c)
    \/ \E c \in DOMAIN conns : _on_error(c)
    \/ \E c \in DOMAIN conns : _on_close(c)
    \/ \E c \in DOMAIN conns : _ping_loop(c)

SpecConn == InitClient /\ [][NextConn]_vars

\* the frames a connection receives
NextMsg ==
    \/ connect
    \/ \E c \in DOMAIN conns : _on_open(c)
    \/ \E c \in DOMAIN conns : \E message \in Frames : _on_message(c, message)
    \/ \E limit \in Limits : get_recent_trades(limit)
    \/ \E a \in AssetNames : get_last_price(a)
    \/ \E a \in AssetNames : get_orderbook(a)

SpecMsg == InitClient /\ [][NextMsg]_vars

\* the open handler statement by statement, and the caller's thread
NextOpen ==
    \/ connect
    \/ \E c \in DOMAIN conns : on_open_subscribe(c)
    \/ \E c \in DOMAIN conns : on_open_connected(c)
    \/ \E c \in DOMAIN conns : _on_close(c)
    \/ \E c \in DOMAIN conns : _ping_loop(c)
    \/ disconnect
    \/ is_connected

SpecOpen == InitClient /\ [][NextOpen]_vars

\* the receive thread statement by statement, and the reader threads
BookFrames == {m \in OtherEvents : m.obj.event_type = "book"}

NextLock ==
    \/ connect
    \/ \E c \in DOMAIN conns : _on_open(c)
    \/ \E c \in DOMAIN conns : \E message \in WellFormedTrades :
          trade_event_lock(c, message)
    \/ trade_event_appendleft
    \/ trade_event_cache
    \/ \E c \in DOMAIN conns : \E message \in BookFrames :
          book_event_lock(c, message)
    \/ book_event_store
    \/ \E limit \in Limits : get_recent_trades(limit)
    \/ \E a \in AssetNames : get_last_price(a)
    \/ \E a \in AssetNames : get_orderbook(a)

SpecLock == InitClient /\ [][NextLock]_vars

\* the shutdown statement by statement on the main thread, and the trade
\* callback on the thread of its caller
NextStop ==
    \/ start_recording(TRUE)
    \/ \E by \in {"call", "signal"} : stop_begin(by)
    \/ stop_disconnect
    \/ stop_close
    \/ stop_summary
    \/ stop_return
    \/ signal_during_stop
    \/ \E trade \in StreamTrades : on_trade_begin(trade)
    \/ on_trade_insert

SpecStop == InitRecorder /\ [][NextStop]_vars

\* the recorder: the record command, the library calls, the callback the
\* stream client is meant to invoke, and the interrupt signal
NextRecorder ==
    \/ \E opens \in BOOLEAN : cmd_record(opens)
    \/ \E opens \in BOOLEAN : start_recording(opens)
    \/ stop_recording
    \/ _signal_handler
    \/ \E trade \in StreamTrades : _on_trade(trade)
    \/ Tick

SpecRecorder == InitRecorder /\ [][NextRecorder]_vars

\* ------------------------------------------------------------------- claims
\* a stored row and a trade dict agree on (asset_id, timestamp, price, size)
SameTuple(r, td) ==
    /\ r.asset_id = td.asset_id
    /\ r.timestamp = td.timestamp
    /\ r.price = td.price
    /\ r.size = td.size

TradeIdOf(td) ==
    _generate_trade_id(td.asset_id, td.timestamp, td.price, td.size)

\* side, source and market_id of the dict pass the table's constraints
Storable(td) == RowConstraints(TradeRow(td, 0))

\* the step is a call of op: every call records itself in ret, and only
\* the clock's tick leaves ret alone
Called(op) == ret'.op = op /\ now' = now

\* the first argument of the call of the step
Arg == ret'.args[1]

\* C1 (idempotency): after every step no two stored rows share an
\* (asset_id, timestamp, price, size) tuple, and an insert_trade call whose
\* tuple is already stored, whatever its other fields, returns False and
\* leaves exactly one row of that tuple.
C1_Idempotent ==
    [][ /\ \A r1, r2 \in trades' : SameTuple(r1, r2) => r1 = r2
        /\ (/\ Called("insert_trade")
            /\ ret'.status = "ok"
            /\ \E r \in trades : SameTuple(r, Arg))
           => /\ ret'.value = FALSE
              /\ Cardinality({r \in trades' : SameTuple(r, Arg)}) = 1
      ]_vars

\* a duplicate that differs in side, source, market_id and outcome from the
\* stored row of its tuple was inserted and refused
C1_Witness ==
    /\ ret.op = "insert_trade"
    /\ ret.status = "ok"
    /\ ret.value = FALSE
    /\ \E r \in trades :
          /\ SameTuple(r, ret.args[1])
          /\ r.source # ret.args[1].source
          /\ r.side # ret.args[1].side
          /\ r.market_id # ret.args[1].market_id
          /\ r.outcome # ret.args[1].outcome
          /\ Storable(ret.args[1])

\* C2 (immutable, append-only): no step of any operation removes or changes
\* a stored row; an insert of an already stored tuple leaves the summary of
\* every market as it was, so the first writer's source is the one counted.
C2_AppendOnly ==
    [][ /\ trades \subseteq trades'
        /\ (/\ Called("insert_trade")
            /\ ret'.status = "ok"
            /\ \E r \in trades : SameTuple(r, Arg))
           => \A m \in MarketIds :
                 MarketSummary(trades', m) = MarketSummary(trades, m)
      ]_vars

\* trade A from the stream is stored, trade B of the same tuple from the
\* backfill was refused later: one row, A's, total_trades = 1 and
\* sources = {websocket: 1}
C2_Witness ==
    /\ ret.op = "insert_trade"
    /\ ret.status = "ok"
    /\ ret.value = FALSE
    /\ ret.args[1].source = "rest_api"
    /\ \E r \in trades :
          /\ trades = {r}
          /\ SameTuple(r, ret.args[1])
          /\ r.source = "websocket"
          /\ r.recorded_at < now
          /\ MarketSummary(trades, r.market_id).total_trades = 1
          /\ MarketSummary(trades, r.market_id).sources = [s \in {"websocket"} |-> 1]

\* C3 (return value), as claimed: insert_trade returns True exactly when the
\* table grew by one row, and when it returns False the table is unchanged
\* and holds a row with the trade's trade_id.
C3_FalseOnlyOnDuplicate ==
    [][ (Called("insert_trade") /\ ret'.status = "ok")
        => /\ ret'.value = TRUE <=>
                  Cardinality(trades') = Cardinality(trades) + 1
           /\ ret'.value = FALSE =>
                  /\ trades' = trades
                  /\ \E r \in trades' : r.trade_id = TradeIdOf(Arg)
      ]_vars

\* C4 (no false collapse), as claimed: a storable trade that differs from
\* every stored row in asset_id, timestamp, price or size is stored as a new
\* row and insert_trade returns True.
C4_NoFalseCollapse ==
    [][ (/\ Called("insert_trade")
         /\ ret'.status = "ok"
         /\ Storable(Arg)
         /\ \A r \in trades : ~SameTuple(r, Arg))
        => /\ ret'.value = TRUE
           /\ Cardinality(trades') = Cardinality(trades) + 1
      ]_vars

Returned_rows == {ret.value[i] : i \in DOMAIN ret.value}

\* C6 (ordering): the list a query returns is non-decreasing in timestamp,
\* in the bytewise order of the stored timestamp texts.
C6_Ordered ==
    ret.op \in {"get_trades_by_market", "get_trades_by_token"}
    => \A i, j \in DOMAIN ret.value :
          i < j => TextLE(ret.value[i].timestamp, ret.value[j].timestamp)

\* a query returned two rows of different timestamps
C6_Witness ==
    /\ ret.op \in {"get_trades_by_market", "get_trades_by_token"}
    /\ Len(ret.value) >= 2
    /\ ret.value[1].timestamp # ret.value[2].timestamp

\* the rows of the table that the range of a query selects from: those of
\* the market (and of the outcome, when a non-empty one is given) or asset
QueriedRows ==
    IF ret.op = "get_trades_by_market"
    THEN {r \in trades : /\ r.market_id = ret.args[1]
                         /\ ret.args[4] \notin {None, ""}
                               => r.outcome = ret.args[4]}
    ELSE {r \in trades : r.asset_id = ret.args[1]}

\* C7 (range boundary), as claimed: for every start and end given (every
\* value but None), a row is returned iff start <= timestamp < end.
C7_RangeAsClaimed ==
    ret.op \in {"get_trades_by_market", "get_trades_by_token"}
    => \A r \in QueriedRows :
          r \in Returned_rows
          <=> /\ ret.args[2] # NoText => TextLE(ret.args[2], r.timestamp)
              /\ ret.args[3] # NoText => TextLT(r.timestamp, ret.args[3])

\* C7 amended: for every non-empty start and end a row is returned iff
\* start <= timestamp < end; an empty or absent bound does not bound.
C7_Range ==
    ret.op \in {"get_trades_by_market", "get_trades_by_token"}
    => \A r \in QueriedRows :
          r \in Returned_rows
          <=> /\ ret.args[2] \notin {NoText, <<>>}
                    => TextLE(ret.args[2], r.timestamp)
              /\ ret.args[3] \notin {NoText, <<>>}
                    => TextLT(r.timestamp, ret.args[3])

\* a range query over rows at exactly start and at exactly end returned the
\* first and not the second
C7_Witness ==
    /\ ret.op = "get_trades_by_market"
    /\ ret.args[2] \notin {NoText, <<>>}
    /\ ret.args[3] \notin {NoText, <<>>}
    /\ \E r1, r2 \in QueriedRows :
          /\ r1.timestamp = ret.args[2]
          /\ r2.timestamp = ret.args[3]
          /\ r1 \in Returned_rows
          /\ r2 \notin Returned_rows

\* C8 (query exactness), as claimed: a query without a range returns each
\* stored row of the market whose outcome equals the filter, or each row of
\* the market when no filter (None) is given, and nothing else; a query by
\* token returns exactly the rows of the asset.
C8_ExactAsClaimed ==
    /\ (ret.op = "get_trades_by_market"
        /\ ret.args[2] = NoText /\ ret.args[3] = NoText)
       => /\ Returned_rows =
                {r \in trades : /\ r.market_id = ret.args[1]
                                /\ ret.args[4] # None => r.outcome = ret.args[4]}
          /\ Len(ret.value) = Cardinality(Returned_rows)
    /\ (ret.op = "get_trades_by_token"
        /\ ret.args[2] = NoText /\ ret.args[3] = NoText)
       => /\ Returned_rows = {r \in trades : r.asset_id = ret.args[1]}
          /\ Len(ret.value) = Cardinality(Returned_rows)

\* C8 amended: as claimed for every non-empty outcome filter; an empty
\* outcome filter is no filter.
C8_Exact ==
    /\ (ret.op = "get_trades_by_market"
        /\ ret.args[2] = NoText /\ ret.args[3] = NoText)
       => /\ Returned_rows =
                {r \in trades : /\ r.market_id = ret.args[1]
                                /\ ret.args[4] \notin {None, ""}
                                      => r.outcome = ret.args[4]}
          /\ Len(ret.value) = Cardinality(Returned_rows)
    /\ (ret.op = "get_trades_by_token"
        /\ ret.args[2] = NoText /\ ret.args[3] = NoText)
       => /\ Returned_rows = {r \in trades : r.asset_id = ret.args[1]}
          /\ Len(ret.value) = Cardinality(Returned_rows)

\* one market holds a trade tagged UP and one tagged DOWN; the query
\* filtered to UP returned exactly the first
C8_Witness ==
    /\ ret.op = "get_trades_by_market"
    /\ ret.args[4] = "UP"
    /\ Len(ret.value) = 1
    /\ ret.value[1].outcome = "UP"
    /\ \E r \in trades : r.market_id = ret.args[1] /\ r.outcome = "DOWN"

\* the row of a market in a markets table
RowsOf(M, market_id) == {r \in M : r.market_id = market_id}

\* C9 (first_seen stability): the table holds at most one row per market_id
\* and first_seen <= last_updated in each; a successful insert_market leaves
\* one row of its market_id, whose first_seen is that of the row it replaced
\* (the time of the call when there was none), whose last_updated is the
\* time of the call and whose other fields are those given; it leaves the
\* rows of the other markets alone, and no other step changes the table.
C9_FirstSeenStable ==
    [][ /\ \A r1, r2 \in markets' : r1.market_id = r2.market_id => r1 = r2
        /\ \A r \in markets' : r.first_seen <= r.last_updated
        /\ ~Called("insert_market") \/ ret'.status = "raise"
              => markets' = markets
        /\ (Called("insert_market") /\ ret'.status = "ok")
           => /\ \E new \in markets' :
                    /\ RowsOf(markets', Arg.market_id) = {new}
                    /\ new.first_seen =
                          IF RowsOf(markets, Arg.market_id) = {} THEN now
                          ELSE (CHOOSE old \in RowsOf(markets, Arg.market_id) :
                                   TRUE).first_seen
                    /\ new.last_updated = now
                    /\ new.question = Arg.question
                    /\ new.closed = Arg.closed
                    /\ new.outcome_up = Arg.outcome_up
                    /\ new.outcome_down = Arg.outcome_down
                    /\ new.token_up = Arg.token_up
                    /\ new.token_down = Arg.token_down
              /\ \A r \in markets :
                    r.market_id # Arg.market_id => r \in markets'
      ]_vars

\* a market was upserted again, later and with another question: its row
\* has the new question, the old first_seen and the new last_updated
C9_Witness ==
    /\ ret.op = "insert_market"
    /\ ret.status = "ok"
    /\ ret.args[1].question = "q2"
    /\ \E r \in markets :
          /\ r.market_id = ret.args[1].market_id
          /\ r.question = "q2"
          /\ r.first_seen < r.last_updated
          /\ r.last_updated = now

\* the sum of the counts of a per-source breakdown
RECURSIVE SumCounts(_)
SumCounts(f) ==
    IF DOMAIN f = {} THEN 0
    ELSE LET k == CHOOSE x \in DOMAIN f : TRUE
         IN  f[k] + SumCounts([x \in DOMAIN f \ {k} |-> f[x]])

\* C10 (summary), as claimed, one insert at a time: inserting a storable
\* trade that differs from every stored trade in asset_id, timestamp, price
\* or size raises total_trades of its market by one and total_volume by its
\* size, so that N distinct trades give total_trades = N; oldest_trade and
\* newest_trade bound its timestamp and the per-source counts sum to
\* total_trades.
C10_SummaryAsClaimed ==
    [][ (/\ Called("insert_trade")
         /\ ret'.status = "ok"
         /\ Storable(Arg)
         /\ \A r \in trades : ~SameTuple(r, Arg))
        => LET before == MarketSummary(trades, Arg.market_id)
               after == MarketSummary(trades', Arg.market_id)
           IN  /\ after.total_trades = before.total_trades + 1
               /\ after.total_volume =
                     Arg.size + (IF before.total_trades = 0 THEN 0
                                 ELSE before.total_volume)
               /\ TextLE(after.oldest_trade, Arg.timestamp)
               /\ TextLE(Arg.timestamp, after.newest_trade)
               /\ SumCounts(after.sources) = after.total_trades
      ]_vars

\* the stored trades of a market
TradesOf(market_id) == {r \in trades : r.market_id = market_id}

\* C11 (export of an empty market), as claimed: an export_csv call on a
\* market with zero stored trades returns 0 and leaves the output file
\* existing and holding exactly the header line.
C11_HeaderOnlyFile ==
    [][ (Called("export_to_csv") /\ TradesOf(Arg) = {})
        => /\ ret'.value = 0
           /\ files' = << <<"timestamp", "market_id", "asset_id", "side",
                            "outcome", "price", "size", "value",
                            "fee_rate_bps", "source">> >>
      ]_vars

\* a data line of the file holds the columns of a stored row, in the order
\* timestamp, market_id, asset_id, side, outcome, price, size, value,
\* fee_rate_bps, source
LineOf(line, r) ==
    /\ Len(line) = 10
    /\ line[1] = r.timestamp
    /\ line[2] = r.market_id
    /\ line[3] = r.asset_id
    /\ line[4] = r.side
    /\ line[5] = (IF r.outcome = None THEN "" ELSE r.outcome)
    /\ line[6] = r.price
    /\ line[7] = r.size
    /\ line[9] = (IF r.fee_rate_bps = None THEN "" ELSE r.fee_rate_bps)
    /\ line[10] = r.source

\* C12 (export): an export_csv call on a market with at least one stored
\* trade writes the header and then one data line for every stored trade of
\* that market and for no other trade, ascending by timestamp, with the
\* columns in the fixed order; the returned count is the number of data
\* lines and equals total_trades of the market's summary.
C12_ExportLines ==
    [][ (Called("export_to_csv") /\ TradesOf(Arg) # {})
        => /\ files'[1] = <<"timestamp", "market_id", "asset_id", "side",
                            "outcome", "price", "size", "value",
                            "fee_rate_bps", "source">>
           /\ ret'.value = Len(files') - 1
           /\ ret'.value = MarketSummary(trades', Arg).total_trades
           /\ \A r \in TradesOf(Arg) :
                 \E i \in 2..Len(files') : LineOf(files'[i], r)
           /\ \A i \in 2..Len(files') :
                 \E r \in TradesOf(Arg) : LineOf(files'[i], r)
           /\ \A i, j \in 2..Len(files') :
                 i < j => TextLE(files'[i][1], files'[j][1])
      ]_vars

\* an export of one market wrote its single trade while a trade of another
\* market is stored
C12_Witness ==
    /\ ret.op = "export_to_csv"
    /\ ret.value = 1
    /\ Len(files) = 2
    /\ \E r \in trades : r.market_id = ret.args[1] /\ LineOf(files[2], r)
    /\ \E r \in trades : r.market_id # ret.args[1]

\* C13 (subscription): a connection sends exactly one subscription message,
\* when it opens and as its first frame, carrying the full asset-id list
\* the client was given; a connect() call on a running client opens no
\* connection, starts no receive loop and sends no frame.
C13_OneSubscription ==
    [][ /\ \A c \in DOMAIN conns' :
              /\ Cardinality({i \in DOMAIN conns'[c].sent :
                                 conns'[c].sent[i].kind = "dict"})
                    = (IF conns'[c].opened THEN 1 ELSE 0)
              /\ conns'[c].opened
                    => conns'[c].sent[1] =
                          [kind |-> "dict",
                           obj |-> [assets_ids |-> asset_ids,
                                    type |-> "market"]]
        /\ (Called("connect") /\ running)
              => /\ conns' = conns
                 /\ ws' = ws
                 /\ running'
                 /\ connected' = connected
      ]_vars

\* connect() was called on a client whose connection is open and subscribed
C13_Witness ==
    /\ ret.op = "connect"
    /\ running
    /\ ws = 1
    /\ Len(conns) = 1
    /\ conns[1].sock = "open"
    /\ Len(asset_ids) = 2
    /\ conns[1].sent[1] = SubscribeMsg(<<"a", "b">>)

\* a frame was sent on connection c in the step, and it is a ping
PingSent(c) ==
    /\ Len(conns'[c].sent) = Len(conns[c].sent) + 1
    /\ conns'[c].sent[Len(conns'[c].sent)] = [kind |-> "text", text |-> "PING"]

\* C14 (heartbeat), as claimed: a ping is sent on a connection only while
\* the client is marked connected and running, never after it was marked
\* closed, and never before the connection's subscription message.
C14_PingOnlyWhileOpen ==
    [][ \A c \in DOMAIN conns :
           PingSent(c) => /\ connected
                          /\ conns[c].sent # <<>>
                          /\ conns[c].sent[1].kind = "dict"
      ]_vars

\* every connection created so far has been torn down
Quiet == \A c \in DOMAIN conns : conns[c].done

\* C15 (disconnected callback), as claimed: the disconnected callback is
\* never invoked more often than the connected flag went from true to
\* false, and once every connection is torn down it was invoked exactly
\* that often.
C15_OncePerTransition ==
    /\ disconnected_calls <= transitions
    /\ Quiet => disconnected_calls = transitions

\* C16 (no reconnection): a close nobody asked for invokes the disconnected
\* callback and marks the client not connected; from then on, until the
\* caller calls connect again, the client stays not connected and no
\* connection is opened and no subscription message is sent.
C16_NoReconnect ==
    [][ /\ (Called("_on_close") /\ ~conns[Arg].close_called)
              => /\ ~connected'
                 /\ calls' = <<[name |-> "on_disconnected", arg |-> None]>>
                 /\ unexpected' # NoClose
        /\ unexpected' # NoClose
              => /\ ~connected'
                 /\ Len(conns') = unexpected'.conns
                 /\ SubsUpTo(Len(conns')) = unexpected'.subs
      ]_vars

\* an open connection closed by itself, and the client was polled later
C16_Witness ==
    /\ unexpected # NoClose
    /\ unexpected.subs = 1
    /\ conns[1].opened /\ conns[1].done /\ ~conns[1].close_called
    /\ running
    /\ ret.op = "is_connected"
    /\ ret.value = FALSE

KnownEvents == {"book", "price_change", "last_trade_price", "tick_size_change"}

\* the heartbeat ack, or a record whose event type is not a known one
IsDropped(message) ==
    \/ message = [kind |-> "text", text |-> "PONG"]
    \/ /\ message.kind = "dict"
       /\ ("event_type" \notin DOMAIN message.obj
           \/ message.obj.event_type \notin KnownEvents)

\* C17 (dropped frames): a heartbeat ack and a frame of unknown event type
\* invoke no callback, leave the orderbook map, the trade buffer and the
\* last-price cache as they are, and leave the connection receiving.
C17_Dropped ==
    [][ (Called("_on_message") /\ IsDropped(Arg))
        => /\ calls' = <<>>
           /\ orderbooks' = orderbooks
           /\ trades_history' = trades_history
           /\ last_prices' = last_prices
           /\ conns'[ret'.args[2]].sock = "open"
      ]_vars

\* a frame of unknown event type arrived on a client that holds trades
C17_Witness ==
    /\ ret.op = "_on_message"
    /\ ret.args[1].kind = "dict"
    /\ "event_type" \in DOMAIN ret.args[1].obj
    /\ ret.args[1].obj.event_type = "new_event"
    /\ calls = <<>>
    /\ trades_history # <<>>

TradeFields ==
    {"asset_id", "price", "size", "side", "fee_rate_bps", "timestamp",
     "market"}

\* an undecodable frame, a frame that is no record, or a trade record with
\* fields missing
IsMalformed(message) ==
    \/ message.kind = "text" /\ message.text # "PONG"
    \/ message.kind = "list"
    \/ /\ message.kind = "dict"
       /\ "event_type" \in DOMAIN message.obj
       /\ message.obj.event_type = "last_trade_price"
       /\ ~(TradeFields \subseteq DOMAIN message.obj)

\* C18 (malformed payloads), as claimed: a malformed frame leaves the
\* orderbook map, the trade buffer and the last-price cache as they are,
\* hands no trade to the trade callback that stores it, and leaves the
\* connection receiving.
C18_MalformedDropped ==
    [][ (Called("_on_message") /\ IsMalformed(Arg))
        => /\ orderbooks' = orderbooks
           /\ trades_history' = trades_history
           /\ last_prices' = last_prices
           /\ \A i \in DOMAIN calls' : calls'[i].name # "on_trade"
           /\ conns'[ret'.args[2]].sock = "open"
      ]_vars

\* C19 (ring buffer): the buffer never holds more than its capacity; it
\* holds the min(n, capacity) most recent of the n trades received, newest
\* first; get_recent_trades(limit) returns the newest min(limit, length).
C19_RingBuffer ==
    /\ Len(trades_history) <= max_trades_history
    /\ Len(trades_history) = Min(Len(received), max_trades_history)
    /\ \A i \in 1..Len(trades_history) :
          trades_history[i] = received[Len(received) - i + 1]
    /\ ret.op = "get_recent_trades"
          => /\ Len(ret.value) = Min(ret.args[1], Len(trades_history))
             /\ \A i \in 1..Len(ret.value) : ret.value[i] = trades_history[i]

\* more trades than the buffer holds were received, and the newest was
\* asked for
C19_Witness ==
    /\ Len(received) > max_trades_history
    /\ received[1] # received[Len(received)]
    /\ ret.op = "get_recent_trades"
    /\ ret.args[1] = 1
    /\ ret.value = <<received[Len(received)]>>

\* C20 (trade event): a last_trade_price event that carries the fields of
\* the wire format makes the cache entry of its asset that trade and leaves
\* the entries of the other assets alone; the trade callback is invoked
\* exactly once, with the event's asset_id, price, size, side, fee and
\* timestamp, and finds the buffer and the cache already updated.
C20_TradeEvent ==
    [][ (/\ Called("_on_message")
         /\ Arg.kind = "dict"
         /\ TradeFields \cup {"event_type"} \subseteq DOMAIN Arg.obj
         /\ Arg.obj.event_type = "last_trade_price")
        => LET e == Arg.obj
               IsEvent(t) == /\ t.asset_id = e.asset_id
                             /\ t.price = e.price
                             /\ t.size = e.size
                             /\ t.side = e.side
                             /\ t.fee_rate_bps = e.fee_rate_bps
                             /\ t.timestamp = e.timestamp
           IN  /\ DOMAIN last_prices' = DOMAIN last_prices \cup {e.asset_id}
               /\ IsEvent(last_prices'[e.asset_id])
               /\ \A a \in DOMAIN last_prices \ {e.asset_id} :
                     last_prices'[a] = last_prices[a]
               /\ Len(calls') = 1
               /\ calls'[1].name = "on_trade"
               /\ IsEvent(calls'[1].arg)
               /\ calls'[1].trades_history = trades_history'
               /\ calls'[1].last_prices = last_prices'
               /\ trades_history'[1] = calls'[1].arg
      ]_vars

\* a trade of asset b arrived while the cache held a trade of asset a
C20_Witness ==
    /\ ret.op = "_on_message"
    /\ ret.args[1] = Dict(TradeEvent("b", "1"))
    /\ DOMAIN last_prices = {"a", "b"}
    /\ last_prices["a"].price = "2"
    /\ last_prices["b"].asset_id = "b"
    /\ Len(calls) = 1
    /\ calls[1].name = "on_trade"

\* a record of the given event type
IsEvent(message, event_type) ==
    /\ message.kind = "dict"
    /\ "event_type" \in DOMAIN message.obj
    /\ message.obj.event_type = event_type

\* C21 (book event): a book event makes the snapshot of its asset exactly
\* the bids, asks, timestamp and hash of the event (an absent side is
\* empty), so that nothing of the previous snapshot survives, and leaves
\* the snapshots of the other assets, the trade buffer and the last-price
\* cache as they are; get_orderbook returns the stored snapshot.
C21_BookReplaced ==
    [][ /\ (Called("_on_message") /\ IsEvent(Arg, "book"))
           => LET e == Arg.obj
                  a == GetDefault(e, "asset_id", "")
              IN  /\ DOMAIN orderbooks' = DOMAIN orderbooks \cup {a}
                  /\ orderbooks'[a] =
                         [bids |-> GetDefault(e, "bids", <<>>),
                          asks |-> GetDefault(e, "asks", <<>>),
                          timestamp |-> GetDefault(e, "timestamp", ""),
                          hash |-> GetDefault(e, "hash", "")]
                  /\ \A x \in DOMAIN orderbooks \ {a} :
                        orderbooks'[x] = orderbooks[x]
                  /\ trades_history' = trades_history
                  /\ last_prices' = last_prices
        /\ (Called("get_orderbook") /\ Arg \in DOMAIN orderbooks)
           => ret'.value = orderbooks[Arg]
      ]_vars

\* a book event with no bids replaced a snapshot of asset a that had a
\* bid, while asset b had a snapshot and the cache a trade
C21_Witness ==
    /\ ret.op = "_on_message"
    /\ ret.args[1] = Dict([event_type |-> "book", asset_id |-> "a",
                           bids |-> <<>>, asks |-> <<"3">>,
                           timestamp |-> "2", hash |-> "g"])
    /\ orderbooks["a"].bids = <<>>
    /\ orderbooks["a"].asks = <<"3">>
    /\ "b" \in DOMAIN orderbooks
    /\ orderbooks["b"].bids = <<"1">>
    /\ last_prices # <<>>

\* the callback of each known event type
CallbackOf(event_type) ==
    CASE event_type = "book"             -> "on_book"
      [] event_type = "price_change"     -> "on_price_change"
      [] event_type = "last_trade_price" -> "on_trade"
      [] event_type = "tick_size_change" -> "on_tick_size_change"

\* C22 (demultiplexing): a frame whose event type is a known one invokes
\* the callback of that type once and no other callback; a price_change
\* and a tick_size_change event reach their callbacks with the payload as
\* it arrived, and leave the orderbook map, the trade buffer and the
\* last-price cache as they are.
C22_Demultiplexed ==
    [][ (/\ Called("_on_message")
         /\ Arg.kind = "dict"
         /\ "event_type" \in DOMAIN Arg.obj
         /\ Arg.obj.event_type \in KnownEvents)
        => /\ Len(calls') = 1
           /\ calls'[1].name = CallbackOf(Arg.obj.event_type)
           /\ Arg.obj.event_type \in {"price_change", "tick_size_change"}
                 => /\ calls'[1].arg = Arg.obj
                    /\ orderbooks' = orderbooks
                    /\ trades_history' = trades_history
                    /\ last_prices' = last_prices
      ]_vars

\* a price_change event was forwarded by a client that holds a snapshot
\* and a trade
C22_Witness ==
    /\ ret.op = "_on_message"
    /\ IsEvent(ret.args[1], "price_change")
    /\ calls = <<Callback("on_price_change", ret.args[1].obj)>>
    /\ orderbooks # <<>>
    /\ trades_history # <<>>

\* the array that a field of an upstream record denotes once the text of
\* an array is decoded
Decoded(x) ==
    IF x.type = "list" THEN x.items
    ELSE CHOOSE items \in TokenLists \cup OutcomeLists :
             JsonDumps(items) = x.text

\* the upstream record of the market exists and names two tokens and two
\* outcomes
Resolvable(m) ==
    /\ m \in DOMAIN upstream
    /\ Len(Decoded(upstream[m].clobTokenIds)) = 2
    /\ Len(Decoded(upstream[m].outcomes)) = 2

\* the position of a market id in a list of them
IsListed(m, ids) == \E i \in DOMAIN ids : ids[i] = m

\* C23 (metadata resolution), as claimed: when a recorder is started,
\* every listed market whose upstream record exists and, once decoded,
\* names exactly two tokens and two outcomes gets its metadata and the two
\* token-map entries that name those tokens, and every other listed market
\* gets no metadata and no token-map entry.
C23_ResolvedIffTwoTokens ==
    [][ (Called("start_recording") /\ Arg /\ ~rec_running)
        => \A m \in MarketIds :
              IsListed(m, market_ids)
              => IF Resolvable(m)
                 THEN LET tokens == Decoded(upstream[m].clobTokenIds)
                          labels == Decoded(upstream[m].outcomes)
                      IN  /\ m \in DOMAIN markets_metadata'
                          /\ {tokens[1], tokens[2]} \subseteq DOMAIN token_map'
                          /\ token_map'[tokens[1]] = <<m, labels[1]>>
                          /\ token_map'[tokens[2]] = <<m, labels[2]>>
                 ELSE /\ m \notin DOMAIN markets_metadata'
                      /\ \A t \in DOMAIN token_map' : token_map'[t][1] # m
      ]_vars

\* the tokens of the markets whose metadata the recorder holds
TokensOf(metadata) ==
    UNION {{metadata[m].token_up, metadata[m].token_down} :
               m \in DOMAIN metadata}

IsConnect(e) == e.do = "connect"

\* C24 (subscription set), as claimed: a start that resolves at least one
\* market connects the stream client with exactly the tokens of the
\* resolved markets, and no start connects it with an empty list.
C24_ConnectWithAllTokens ==
    [][ (Called("start_recording") /\ Arg /\ ~rec_running)
        => /\ markets_metadata' # <<>>
                 => \E i \in DOMAIN effects' :
                       /\ IsConnect(effects'[i])
                       /\ effects'[i].asset_ids = TokensOf(markets_metadata')
           /\ \A i \in DOMAIN effects' :
                 IsConnect(effects'[i]) => effects'[i].asset_ids # {}
      ]_vars

Diagnostics == {Effect("no valid markets"), Effect("no markets to record")}

\* C25 (nothing resolved), as claimed: a start that resolves no market
\* opens no stream, reports it and leaves the recorder not running, and
\* the record command then ends the process with a status that is not 0.
C25_AbortsWhenNothingResolved ==
    [][ /\ (Called("start_recording") /\ Arg /\ ~rec_running
            /\ token_map' = <<>>)
           => /\ \A i \in DOMAIN effects' : ~IsConnect(effects'[i])
              /\ \E i \in DOMAIN effects' : effects'[i] \in Diagnostics
              /\ ~rec_running'
        /\ (Called("cmd_record") /\ Arg /\ token_map' = <<>>)
           => /\ \A i \in DOMAIN effects' : ~IsConnect(effects'[i])
              /\ \E i \in DOMAIN effects' : effects'[i] \in Diagnostics
              /\ ~rec_running'
              /\ process' = "exit 1"
      ]_vars

HasMarketRow(M, market_id) == \E r \in M : r.market_id = market_id

\* C26 (metadata before trades), as claimed: a start that gets as far as
\* the stream client has by then a Market row for every market it
\* resolved, and every trade the callback stores names a market that has
\* a Market row when the trade is inserted.
C26_MarketRowBeforeTrade ==
    [][ /\ (Called("start_recording") /\ Arg /\ ~rec_running
            /\ token_map' # <<>>)
           => \A m \in DOMAIN markets_metadata' : HasMarketRow(markets', m)
        /\ Called("_on_trade")
           => \A r \in trades' \ trades : HasMarketRow(markets, r.market_id)
      ]_vars

\* a trade of a token of the map whose price, size and fee are numbers
IsStorable(trade) ==
    /\ GetDefault(trade, "asset_id", "") \in DOMAIN token_map
    /\ ~ConversionRaises(trade)

\* C27 (enrichment), as claimed: a recorder that is recording tokens has a
\* stream client that hands it their trades, and every such trade leads
\* to exactly one insert_trade call, which carries the market_id and the
\* outcome of the token map, the source websocket, and the asset_id, side,
\* price, size and timestamp of the event.
C27_EveryTradeStoredOnce ==
    [][ /\ (rec_running' /\ token_map' # <<>>) => ws_client' = "client"
        /\ (Called("_on_trade") /\ rec_running /\ IsStorable(Arg))
           => LET a == GetDefault(Arg, "asset_id", "")
              IN  /\ Len(rec_calls') = 1
                  /\ rec_calls'[1].name = "insert_trade"
                  /\ rec_calls'[1].arg =
                         [market_id    |-> token_map[a][1],
                          outcome      |-> token_map[a][2],
                          source       |-> "websocket",
                          asset_id     |-> Chars(a),
                          side         |-> Arg.side,
                          price        |-> float(Arg.price),
                          size         |-> float(Arg.size),
                          fee_rate_bps |-> rec_calls'[1].arg.fee_rate_bps,
                          timestamp    |-> Chars(Arg.timestamp)]
      ]_vars

\* C28 (unknown token): a trade whose asset_id is not in the token map is
\* dropped: the callback makes no insert_trade call, leaves the store and
\* the running count as they are and returns without an error, and the
\* recorder goes on as before.
C28_UnknownTokenDropped ==
    [][ (/\ Called("_on_trade")
         /\ GetDefault(Arg, "asset_id", "") \notin DOMAIN token_map)
        => /\ rec_calls' = <<>>
           /\ trades' = trades
           /\ markets' = markets
           /\ trades_recorded' = trades_recorded
           /\ ret'.status = "ok"
           /\ rec_running' = rec_running
           /\ db' = db
           /\ token_map' = token_map
           /\ process' = "running"
      ]_vars

\* a trade of token z reached a recorder that maps other tokens, holds an
\* open store and has stored a trade
C28_Witness ==
    /\ ret.op = "_on_trade"
    /\ ret.args[1] = StreamTrade("z", "0", "BUY", "0")
    /\ "a" \in DOMAIN token_map
    /\ "z" \notin DOMAIN token_map
    /\ db = "open"
    /\ trades_recorded = 1
    /\ rec_calls = <<>>

\* the insert_trade calls of the last callback that returned true
StoredCalls(cs) ==
    {i \in DOMAIN cs : cs[i].status = "ok" /\ cs[i].value}

C30_StopOnceInOrder ==
    [][ /\ (Called("stop_recording") /\ rec_running /\ token_map # <<>>)
           => /\ effects' = effects \o <<Effect("disconnect"),
                                          Effect("close"),
                                          Effect("summary")>>
              /\ ~rec_running'
              /\ db' = "closed"
        /\ (Called("stop_recording") /\ ~rec_running)
           => /\ effects' = effects
              /\ db' = db
              /\ ~rec_running'
      ]_vars

\* C32 (side and source): every row of trades has a side that is BUY or
\* SELL and a source that is one of the two tags of the schema, whatever
\* was offered to insert_trade and insert_trades_batch.
C32_SideAndSourceChecked ==
    \A r \in trades : /\ r.side \in {"BUY", "SELL"}
                      /\ r.source \in {"websocket", "rest_api"}

\* a trade whose source is not a tag of the schema was offered to a store
\* that holds a row, and was refused
C32_Witness ==
    /\ ret.op = "insert_trade"
    /\ ret.args[1] = Trade(AssetA, Ts2, 0, 0, "BUY", "stream", "m1", "UP")
    /\ ret.status = "ok"
    /\ ret.value = FALSE
    /\ trades # {}

\* a trade of a mapped token that cannot be stored: a field is no number,
\* or the insert raises because the store is closed
IsFailing(trade) ==
    /\ GetDefault(trade, "asset_id", "") \in DOMAIN token_map
    /\ (ConversionRaises(trade) \/ db = "closed")

\* C33 (storage errors): a trade whose insert fails or whose numeric
\* fields cannot be converted is skipped: the callback returns, the count
\* and the store are as before and the recorder goes on as before; a
\* start that cannot open the store raises before any market is resolved
\* and before any stream client exists, and ends the record command with
\* status 1.
C33_SkipOneAbortOnStore ==
    [][ /\ (Called("_on_trade") /\ IsFailing(Arg))
           => /\ ret'.status = "ok"
              /\ trades_recorded' = trades_recorded
              /\ trades' = trades
              /\ rec_running' = rec_running
              /\ db' = db
              /\ token_map' = token_map
              /\ process' = "running"
        /\ (Called("start_recording") /\ ~Arg /\ ~rec_running)
           => /\ ret'.status = "raise"
              /\ token_map' = token_map
              /\ markets_metadata' = markets_metadata
              /\ markets' = markets
              /\ ws_client' = ws_client
              /\ db' = db
              /\ \A i \in DOMAIN effects' : ~IsConnect(effects'[i])
        /\ (Called("cmd_record") /\ ~Arg /\ market_ids # <<>>)
           => /\ process' = "exit 1"
              /\ token_map' = <<>>
              /\ markets' = markets
              /\ ws_client' = "None"
      ]_vars

\* a trade with a price that is no number reached a recorder that had
\* stored a trade and whose store is open
C33_Witness ==
    /\ ret.op = "_on_trade"
    /\ ret.args[1] = StreamTrade("a", "abc", "BUY", "0")
    /\ "a" \in DOMAIN token_map
    /\ db = "open"
    /\ rec_running
    /\ trades_recorded = 1
    /\ rec_calls = <<>>

\* a start could not open the store although the API holds the market
C33_WitnessStore ==
    /\ ret.op = "start_recording"
    /\ ret.args[1] = FALSE
    /\ ret.status = "raise"
    /\ "m1" \in DOMAIN upstream
    /\ market_ids = <<"m1">>
    /\ token_map = <<>>
    /\ db = "None"

\* C34 (token map), as claimed: after a start has resolved its markets,
\* the token map ties token_up of every resolved market to that market
\* and its first outcome, and token_down to that market and its second
\* outcome.
C34_TokenMapComplete ==
    [][ (Called("start_recording") /\ Arg /\ ~rec_running)
        => \A m \in DOMAIN markets_metadata' :
              LET md == markets_metadata'[m]
              IN  /\ {md.token_up, md.token_down} \subseteq DOMAIN token_map'
                  /\ token_map'[md.token_up] = <<m, md.outcome_up>>
                  /\ token_map'[md.token_down] = <<m, md.outcome_down>>
      ]_vars

\* C40 (recovery), as claimed: a connect() call that follows a close nobody
\* asked for creates a new connection, which becomes the current one and
\* starts connecting.
C40_ConnectAfterClose ==
    [][ (Called("connect") /\ unexpected # NoClose /\ Len(conns) < MaxConns)
        => /\ Len(conns') = Len(conns) + 1
           /\ ws' = Len(conns')
           /\ conns'[ws'].sock = "connecting"
      ]_vars

IsDisconnect(e) == e.do = "disconnect"

\* C36 (runs until interrupted), as claimed: a start that resolved a market
\* and could open its store has connected the stream client and leaves
\* the recorder running with its store open and the stream not
\* disconnected; and while no signal arrives and stop is not called, the
\* recorder stays so.
C36_RunsUntilInterrupted ==
    [][ /\ (Called("start_recording") /\ Arg /\ ~rec_running
            /\ token_map' # <<>>)
           => /\ \E i \in DOMAIN effects' : IsConnect(effects'[i])
              /\ \A i \in DOMAIN effects' : ~IsDisconnect(effects'[i])
              /\ rec_running'
              /\ db' = "open"
        /\ (rec_running /\ db = "open"
            /\ ret'.op \notin {"stop_recording", "_signal_handler"})
           => (rec_running' /\ db' = "open")
      ]_vars

\* C39 (start leaves nothing behind), as claimed: when a start returns or
\* raises, the running flag is false and the store is not open.
C39_StartCleansUp ==
    [][ (Called("start_recording") /\ ~rec_running)
        => (~rec_running' /\ db' # "open")
      ]_vars

\* the newest trade of the buffer is the cache entry of its asset
NewestIsCached ==
    trades_history # <<>>
    => /\ trades_history[1].asset_id \in DOMAIN last_prices
       /\ last_prices[trades_history[1].asset_id] = trades_history[1]

\* the snapshot that a book event leaves
BookOf(e) ==
    [bids |-> GetDefault(e, "bids", <<>>),
     asks |-> GetDefault(e, "asks", <<>>),
     timestamp |-> GetDefault(e, "timestamp", ""),
     hash |-> GetDefault(e, "hash", "")]

IsRead(op) == op \in {"get_orderbook", "get_recent_trades", "get_last_price"}

\* C37 (mutex): whenever the lock is free the newest trade of the buffer
\* is the cache entry of its asset; a getter reads only such a state, so
\* that no reader sees the buffer updated and the cache not; and what
\* get_orderbook returns for an asset with a snapshot is the snapshot of
\* one book event.
C37_NoPartialUpdate ==
    [][ /\ lock' = "free" => NewestIsCached'
        /\ (IsRead(ret'.op) /\ now' = now) => NewestIsCached
        /\ (Called("get_orderbook") /\ Arg \in DOMAIN orderbooks)
           => \E m \in BookFrames : ret'.value = BookOf(m.obj)
      ]_vars

\* a reader got the newest trade while the receive thread was not inside
\* its with block, after the buffer had turned over
C37_Witness ==
    /\ ret.op = "get_recent_trades"
    /\ ret.args[1] = 1
    /\ Len(received) > max_trades_history
    /\ received[1] # received[Len(received)]
    /\ ret.value = <<received[Len(received)]>>
    /\ last_prices[received[Len(received)].asset_id].price
          = received[Len(received)].price
    /\ orderbooks # <<>>
    /\ lock = "free"

\* the receive thread holds the lock between its two updates, with the
\* buffer ahead of the cache
C37_MidUpdate ==
    /\ lock = "receive"
    /\ handling # <<>>
    /\ handling[1].kind = "appended"
    /\ ~NewestIsCached

\* disconnect() has returned and connect() was not called since
Disconnected ==
    /\ ~running
    /\ ws # 0
    /\ conns[ws].close_called

\* C38 (disconnect and the open handler), as claimed: from the return of
\* disconnect() until the next connect() the client is not marked
\* connected, no frame is sent on any connection and no ping loop is
\* started.
C38_StaysDisconnected ==
    [][ /\ Disconnected' => ~connected'
        /\ (Disconnected /\ Disconnected')
           => \A c \in DOMAIN conns :
                 /\ conns'[c].sent = conns[c].sent
                 /\ conns[c].ping = "none" => conns'[c].ping = "none"
      ]_vars

Occurrences(name, log) ==
    Cardinality({i \in DOMAIN log : log[i] = Effect(name)})

\* C31 (duplicate signals), as claimed: however the signals fall, a
\* process that ends after a recorder was started has closed the store
\* once and printed the summary once, and has disconnected the stream
\* client once if there is one.
C31_ShutdownCompletes ==
    (process # "running" /\ rec_start_time # NoTime)
    => /\ db # "open"
       /\ db = "closed" => Occurrences("close", effects) = 1
       /\ Occurrences("summary", effects) = 1
       /\ ws_client # "None" => Occurrences("disconnect", effects) = 1

\* stop_recording was entered on a started recorder and no start followed
StopBegun == rec_start_time # NoTime /\ ~rec_running

\* C35 (stop against the trade callback), as claimed: once stop has begun
\* no trade is stored or counted, and once the store is closed no
\* insert_trade call is made or pending.
C35_NoTradeAfterStop ==
    [][ /\ StopBegun
           => /\ trades' = trades
              /\ trades_recorded' = trades_recorded
        /\ (db = "closed" /\ db' = "closed")
           => /\ rec_calls' = <<>>
              /\ inserting' = <<>>
      ]_vars

====
